---- MODULE Spec2Model ----
(***************************************************************************)
(* A model of jot (src/src/lib.rs, module core): the Line Zipper, the     *)
(* Page buffer built from it, the DirectoryView and the App state machine *)
(* that routes key and mouse events.                                      *)
(*                                                                         *)
(* Text is a sequence of one-character strings.  A Rust String is UTF-8:  *)
(* the code mixes character indices (Vec<char> positions of the Zipper)   *)
(* with byte indices (String::len, str::split_at, match_indices), so every *)
(* character carries its UTF-8 byte length (ByteLen).                      *)
(***************************************************************************)
EXTENDS Integers, Sequences, FiniteSets, TLC

VARIABLES
    \* the fields of App
    tabs, active_tab_index, directory_view, active_pane, mode, command_buffer,
    status_message, should_quit, find_query, find_matches, current_match_index,
    path_to_delete, path_to_rename, find_navigation_active,
    fs,                       \* the filesystem
    log,                      \* the OS calls of the last event: <<call, path, succeeded>>
    z, z_op, z_pre,           \* SpecZipper: one Zipper, the last operation, the Zipper before it
    n_ins, n_del,             \* SpecZipper: inserts, and deletes that removed a character
    pg, pg_op, pg_pre,        \* SpecPage: one Page, the last operation and the Page before it
    panicked                  \* a Rust panic ended the process

appVars == <<tabs, active_tab_index, directory_view, active_pane, mode, command_buffer,
             status_message, should_quit, find_query, find_matches, current_match_index,
             path_to_delete, path_to_rename, find_navigation_active, fs, log>>
zipVars == <<z, z_op, z_pre, n_ins, n_del>>
pageVars == <<pg, pg_op, pg_pre>>
vars == <<appVars, zipVars, pageVars, panicked>>

(***************************************************************************)
(* Bounds of the model.                                                    *)
(***************************************************************************)
MaxLineLen == 2      \* characters typed into one line
MaxLines == 2        \* lines of one document
MaxInserts == 4      \* Zipper::insert calls counted in SpecZipper
MaxTabs == 2         \* open tabs
MaxNodes == 4        \* files and directories of the file system in Spec, the root included
TreeNodes == 3       \* files and directories of the file system in SpecTree and SpecSave, the root included
TextLines == 1       \* lines of a document of the session (Spec)
TextLen == 1         \* characters of a line of a document of the session (Spec)
FindTabs == 1        \* tabs of SpecFind
DeleteTabs == 3      \* tabs of SpecDelete
FindLines == 2       \* lines of a document of SpecFind
FindLen == 3         \* characters of a line of a document of SpecFind
QueryLen == 2        \* characters of the search query of SpecFind
TermWidth == 8       \* the terminal's width passed with every event
TermHeight == 3      \* the terminal's height passed with every event

(***************************************************************************)
(* Characters.  "é" stands for any character whose UTF-8 encoding is two  *)
(* bytes long.                                                            *)
(***************************************************************************)
NL == "\n"
CR == "\r"
WideChar == "é"
PageChars == {"a", WideChar}

ByteLen(c) == IF c = WideChar THEN 2 ELSE 1

(***************************************************************************)
(* Sequences.                                                              *)
(***************************************************************************)
Min(a, b) == IF a <= b THEN a ELSE b
Max(a, b) == IF a >= b THEN a ELSE b
SatSub(a, b) == IF a >= b THEN a - b ELSE 0

Last(s) == s[Len(s)]
Front(s) == SubSeq(s, 1, Len(s) - 1)
Prefix(s, n) == SubSeq(s, 1, n)
Suffix(s, n) == SubSeq(s, n + 1, Len(s))

RECURSIVE Reverse(_)
Reverse(s) == IF s = <<>> THEN <<>> ELSE Append(Reverse(Tail(s)), Head(s))

\* String::len: the length in bytes.
RECURSIVE StrByteLen(_)
StrByteLen(s) == IF s = <<>> THEN 0 ELSE ByteLen(Head(s)) + StrByteLen(Tail(s))

\* The byte offsets that are character boundaries of s (0 and StrByteLen(s) included).
CharBoundaries(s) == {StrByteLen(Prefix(s, i)) : i \in 0..Len(s)}

\* The number of whole characters of s that end at or before byte offset b.
CharsBefore(s, b) ==
    LET fit == {i \in 0..Len(s) : StrByteLen(Prefix(s, i)) <= b}
    IN  CHOOSE i \in fit : \A j \in fit : j <= i

\* Vec<String>::join("\n").
RECURSIVE Join(_)
Join(lines) ==
    IF lines = <<>> THEN <<>>
    ELSE IF Len(lines) = 1 THEN lines[1]
    ELSE lines[1] \o <<NL>> \o Join(Tail(lines))

\* str::lines(): split at every "\n", a final empty piece is not a line, and a
\* "\r" right before the "\n" (or at the end of the last line) is cut off.
StripCR(line) == IF line # <<>> /\ Last(line) = CR THEN Front(line) ELSE line

RECURSIVE SplitLines(_, _)
SplitLines(s, acc) ==
    IF s = <<>> THEN (IF acc = <<>> THEN <<>> ELSE <<StripCR(acc)>>)
    ELSE IF Head(s) = NL THEN <<StripCR(acc)>> \o SplitLines(Tail(s), <<>>)
    ELSE SplitLines(Tail(s), Append(acc, Head(s)))

Lines(contents) == SplitLines(contents, <<>>)

(***************************************************************************)
(* Option<T>: None is the empty sequence, Some(x) the one-element one.     *)
(***************************************************************************)
None == <<>>
Some(x) == <<x>>
IsSome(o) == o # <<>>
Unwrap(o) == o[1]

(***************************************************************************)
(* Zipper: `before` holds the characters left of the cursor in document    *)
(* order; `after` is a Vec used as a stack, its last element is the        *)
(* character right of the cursor.                                          *)
(***************************************************************************)
Zipper_new == [before |-> <<>>, after |-> <<>>]

Zipper_from_str(text) == [before |-> <<>>, after |-> Reverse(text)]

Zipper_move_left(zp) ==
    IF zp.before = <<>> THEN zp
    ELSE [before |-> Front(zp.before), after |-> Append(zp.after, Last(zp.before))]

Zipper_move_right(zp) ==
    IF zp.after = <<>> THEN zp
    ELSE [before |-> Append(zp.before, Last(zp.after)), after |-> Front(zp.after)]

Zipper_insert(zp, c) == [zp EXCEPT !.before = Append(@, c)]

\* A delete that takes the character right of the cursor instead of the one left of it.
Zipper_delete_forward(zp) ==
    IF zp.after = <<>> THEN zp ELSE [zp EXCEPT !.after = Front(@)]

Zipper_delete(zp) ==
    IF zp.before = <<>> THEN zp ELSE [zp EXCEPT !.before = Front(@)]

Zipper_cursor_position(zp) == Len(zp.before)

Zipper_to_string(zp) == zp.before \o Reverse(zp.after)

Zipper_set_cursor_position(zp, pos) ==
    LET content == zp.before \o Reverse(zp.after)
        k == Min(pos, Len(content))
    IN  [before |-> Prefix(content, k), after |-> Reverse(Suffix(content, k))]

(***************************************************************************)
(* Page.                                                                   *)
(***************************************************************************)
Page_new ==
    [before |-> <<>>, current |-> Zipper_new, after |-> <<>>, file_path |-> None,
     scroll_offset |-> 0, horizontal_scroll_offset |-> 0]

Page_load_from_string(p, contents) ==
    LET lines == Lines(contents)
    IN  IF lines = <<>>
        THEN [p EXCEPT !.before = <<>>, !.current = Zipper_new, !.after = <<>>]
        ELSE [p EXCEPT !.current = Zipper_from_str(Head(lines)),
                       !.before = <<>>, !.after = Tail(lines)]

\* move_up without set_cursor_position: the cursor is left at the start of the line.
Page_move_up_to_line_start(p) ==
    IF p.before = <<>> THEN p
    ELSE [p EXCEPT !.before = Front(p.before),
                   !.after = <<Zipper_to_string(p.current)>> \o p.after,
                   !.current = Zipper_from_str(Last(p.before))]

Page_move_up(p) ==
    IF p.before = <<>> THEN p
    ELSE LET cursor_pos == Zipper_cursor_position(p.current)
             prev_line == Last(p.before)
         IN  [p EXCEPT !.before = Front(p.before),
                       !.after = <<Zipper_to_string(p.current)>> \o p.after,
                       !.current = Zipper_set_cursor_position(
                                       Zipper_from_str(prev_line), cursor_pos)]

Page_move_down(p) ==
    IF p.after = <<>> THEN p
    ELSE LET cursor_pos == Zipper_cursor_position(p.current)
             next_line == Head(p.after)
         IN  [p EXCEPT !.after = Tail(p.after),
                       !.before = Append(p.before, Zipper_to_string(p.current)),
                       !.current = Zipper_set_cursor_position(
                                       Zipper_from_str(next_line), cursor_pos)]

\* str::split_at(mid) panics unless mid is a character boundary of the string;
\* insert_newline passes the cursor's character index as that byte offset.
Page_insert_newline_panics(p) ==
    Zipper_cursor_position(p.current) \notin CharBoundaries(Zipper_to_string(p.current))

Page_insert_newline(p) ==
    LET current_line == Zipper_to_string(p.current)
        k == CharsBefore(current_line, Zipper_cursor_position(p.current))
        left == Prefix(current_line, k)
        right == Suffix(current_line, k)
        split == [p EXCEPT !.current = Zipper_from_str(left),
                           !.after = <<right>> \o p.after]
        down == Page_move_down(split)
    IN  [down EXCEPT !.current = Zipper_set_cursor_position(down.current, 0)]

Page_delete(p) ==
    IF Zipper_cursor_position(p.current) = 0 /\ p.before # <<>>
    THEN LET prev_line == Last(p.before)
             prev_line_len == StrByteLen(prev_line)
             merged_line == prev_line \o Zipper_to_string(p.current)
         IN  [p EXCEPT !.before = Front(p.before),
                       !.current = Zipper_set_cursor_position(
                                       Zipper_from_str(merged_line), prev_line_len)]
    ELSE [p EXCEPT !.current = Zipper_delete(p.current)]

Page_get_all_lines(p) == p.before \o <<Zipper_to_string(p.current)>> \o p.after

Page_cursor_row(p) == Len(p.before)

\* A move_cursor_to that keeps the target line among the lines below it as well.
Page_move_cursor_to_off_by_one(p, row, col) ==
    LET lines == Page_get_all_lines(p)
        target_row == Min(row, SatSub(Len(lines), 1))
    IN  [p EXCEPT !.before = Prefix(lines, target_row),
                  !.after = Suffix(lines, target_row),
                  !.current = Zipper_set_cursor_position(
                                  Zipper_from_str(lines[target_row + 1]), col)]

Page_move_cursor_to(p, row, col) ==
    LET lines == Page_get_all_lines(p)
        target_row == Min(row, SatSub(Len(lines), 1))
    IN  [p EXCEPT !.before = Prefix(lines, target_row),
                  !.after = Suffix(lines, target_row + 1),
                  !.current = Zipper_set_cursor_position(
                                  Zipper_from_str(lines[target_row + 1]), col)]

(***************************************************************************)
(* Paths.  A PathBuf is the sequence of its components; the root directory *)
(* is the component "/", so an absolute path starts with Root and a        *)
(* relative one does not.  The process never changes its working           *)
(* directory: a relative path names a file below Cwd.                      *)
(***************************************************************************)
Root == <<"/">>
Cwd == <<Root>>

Path_is_absolute(p) == p # <<>> /\ p[1] = Root
Resolve(p) == IF Path_is_absolute(p) THEN p ELSE Cwd \o p

\* Path::starts_with compares whole components.
Path_starts_with(p, base) == Len(base) <= Len(p) /\ Prefix(p, Len(base)) = base

\* Path::parent: None for the root (and for the empty path).
Path_parent(p) ==
    IF p = <<>> \/ p = <<Root>> THEN None ELSE Some(Front(p))

\* Path::file_name: the last component unless the path ends in the root.
Path_file_name(p) ==
    IF p = <<>> \/ Last(p) = Root THEN None ELSE Some(Last(p))

\* PathBuf::push of a relative one-component name.
Path_push(p, name) == Append(p, name)

\* PathBuf::set_file_name: replaces the last component, or pushes when there is none.
Path_set_file_name(p, name) ==
    IF IsSome(Path_file_name(p)) THEN Append(Front(p), name) ELSE Append(p, name)

(***************************************************************************)
(* The filesystem: a function from the absolute paths that exist to their  *)
(* nodes.  Every call can also fail for a reason the model does not hold   *)
(* (permissions, a full disk): the caller passes `ok`, FALSE for such a    *)
(* failure.  A call returns [ok |-> success, fs |-> the filesystem after]. *)
(***************************************************************************)
DirNode == [dir |-> TRUE, content |-> <<>>]
FileNode(content) == [dir |-> FALSE, content |-> content]

Fs_exists(f, p) == Resolve(p) \in DOMAIN f
Fs_is_dir(f, p) == Fs_exists(f, p) /\ f[Resolve(p)].dir
Fs_is_file(f, p) == Fs_exists(f, p) /\ ~f[Resolve(p)].dir
Fs_children(f, p) ==
    {q \in DOMAIN f : Len(q) = Len(Resolve(p)) + 1 /\ Path_starts_with(q, Resolve(p))}

Fs_without(f, gone) == [q \in DOMAIN f \ gone |-> f[q]]

\* fs::write: creates or truncates the file; the parent must be a directory.
Fs_write(f, p, content, ok) ==
    LET rp == Resolve(p)
        can == /\ ok
               /\ Len(rp) >= 2
               /\ Fs_is_dir(f, Front(rp))
               /\ ~Fs_is_dir(f, rp)
    IN  IF can
        THEN [ok |-> TRUE,
              fs |-> [q \in DOMAIN f \cup {rp} |->
                         IF q = rp THEN FileNode(content) ELSE f[q]]]
        ELSE [ok |-> FALSE, fs |-> f]

\* fs::create_dir: fails when the path exists.
Fs_create_dir(f, p, ok) ==
    LET rp == Resolve(p)
        can == ok /\ Len(rp) >= 2 /\ Fs_is_dir(f, Front(rp)) /\ ~Fs_exists(f, rp)
    IN  IF can
        THEN [ok |-> TRUE,
              fs |-> [q \in DOMAIN f \cup {rp} |-> IF q = rp THEN DirNode ELSE f[q]]]
        ELSE [ok |-> FALSE, fs |-> f]

Fs_remove_file(f, p, ok) ==
    IF ok /\ Fs_is_file(f, p)
    THEN [ok |-> TRUE, fs |-> Fs_without(f, {Resolve(p)})]
    ELSE [ok |-> FALSE, fs |-> f]

Fs_remove_dir_all(f, p, ok) ==
    IF ok /\ Fs_is_dir(f, p) /\ Len(Resolve(p)) >= 2
    THEN [ok |-> TRUE,
          fs |-> Fs_without(f, {q \in DOMAIN f : Path_starts_with(q, Resolve(p))})]
    ELSE [ok |-> FALSE, fs |-> f]

\* fs::rename: a file replaces a file, a directory replaces an empty directory.
Fs_rename(f, old, new, ok) ==
    LET ro == Resolve(old)
        rn == Resolve(new)
        moved == {q \in DOMAIN f : Path_starts_with(q, ro)}
        target(q) == rn \o Suffix(q, Len(ro))
        can == /\ ok
               /\ Fs_exists(f, ro)
               /\ Len(rn) >= 2 /\ Fs_is_dir(f, Front(rn))
               /\ ~Path_starts_with(rn, ro) \/ rn = ro
               /\ Fs_exists(f, rn) /\ rn # ro =>
                     \/ Fs_is_file(f, ro) /\ Fs_is_file(f, rn)
                     \/ Fs_is_dir(f, ro) /\ Fs_is_dir(f, rn) /\ Fs_children(f, rn) = {}
    IN  IF ~can THEN [ok |-> FALSE, fs |-> f]
        ELSE IF rn = ro THEN [ok |-> TRUE, fs |-> f]
        ELSE [ok |-> TRUE,
              fs |-> [q \in ((DOMAIN f \ moved) \ {rn}) \cup {target(m) : m \in moved} |->
                         IF Path_starts_with(q, rn)
                         THEN f[ro \o Suffix(q, Len(rn))]
                         ELSE f[q]]]

\* fs::read_to_string: Some(contents) or None.
Fs_read_to_string(f, p, ok) ==
    IF ok /\ Fs_is_file(f, p) THEN Some(f[Resolve(p)].content) ELSE None

(***************************************************************************)
(* DirectoryView.  An entry is the path of a DirEntry; whether it is a     *)
(* directory is asked of the filesystem when it is needed (path.is_dir()). *)
(***************************************************************************)
\* The byte order of the characters of file names (ASCII; every other
\* character sorts after them).
CharOrder == <<" ", "N", "Y", "a", "b", "d", "f", "h", "j", "k", "l", "n",
               "q", "r", "s", "w", "x", "y", "z">>
CharRank(c) ==
    IF \E i \in 1..Len(CharOrder) : CharOrder[i] = c
    THEN CHOOSE i \in 1..Len(CharOrder) : CharOrder[i] = c
    ELSE Len(CharOrder) + 1

to_ascii_lowercase(c) == IF c = "N" THEN "n" ELSE IF c = "Y" THEN "y" ELSE c

RECURSIVE NameLess(_, _)
NameLess(a, b) ==
    IF b = <<>> THEN FALSE
    ELSE IF a = <<>> THEN TRUE
    ELSE LET ca == CharRank(to_ascii_lowercase(Head(a)))
             cb == CharRank(to_ascii_lowercase(Head(b)))
         IN  IF ca # cb THEN ca < cb ELSE NameLess(Tail(a), Tail(b))

\* The sort key of DirectoryView::new: (!is_dir, lower-cased file name).
EntryLess(f, p, q) ==
    IF Fs_is_dir(f, p) # Fs_is_dir(f, q) THEN Fs_is_dir(f, p)
    ELSE NameLess(Last(p), Last(q))

RECURSIVE SortEntries(_, _)
SortEntries(f, ps) ==
    IF ps = {} THEN <<>>
    ELSE LET first == CHOOSE p \in ps : \A q \in ps \ {p} : EntryLess(f, p, q)
         IN  <<first>> \o SortEntries(f, ps \ {first})

\* fs::read_dir succeeds on a directory.
Fs_read_dir(f, path, ok) == ok /\ Fs_is_dir(f, path)

\* DirectoryView::new: Some(view), or None when read_dir fails.
DirectoryView_new(f, path, ok) ==
    IF Fs_read_dir(f, path, ok)
    THEN Some([path |-> path, entries |-> SortEntries(f, Fs_children(f, path)),
               selected_index |-> 0, scroll_offset |-> 0])
    ELSE None

DirectoryView_move_up(dv) == [dv EXCEPT !.selected_index = SatSub(@, 1)]

\* move_down without the bound of the last entry.
DirectoryView_move_down_unbounded(dv) ==
    IF dv.entries = <<>> THEN dv
    ELSE [dv EXCEPT !.selected_index = @ + 1]

DirectoryView_move_down(dv) ==
    IF dv.entries = <<>> THEN dv
    ELSE [dv EXCEPT !.selected_index = Min(@ + 1, Len(dv.entries) - 1)]

(***************************************************************************)
(* App.  The handlers are operators on the record `w` of the App's fields  *)
(* plus the filesystem `fs`, the flag `panicked` and `log`, the OS calls   *)
(* the current event has made: <<call, path, succeeded>>.                  *)
(* `io` is the set of the event's OS calls, counted from 1 in the order    *)
(* each handler documents, that fail for an outside reason.                *)
(***************************************************************************)
IoOk(io, n) == n \notin io

Logged(w, call, path, ok) == [w EXCEPT !.log = Append(@, <<call, path, ok>>)]

HasActivePage(w) == w.active_tab_index < Len(w.tabs)
ActivePage(w) == w.tabs[w.active_tab_index + 1]
WithActivePage(w, p) == [w EXCEPT !.tabs[w.active_tab_index + 1] = p]

\* usize::to_string().len()
RECURSIVE Digits(_)
Digits(n) == IF n < 10 THEN 1 ELSE 1 + Digits(n \div 10)

line_gutter_width(page) == Digits(Len(Page_get_all_lines(page))) + 2

\* (term_width as f32 * 0.25).round() as u16
file_tree_width(term_width) == (term_width + 2) \div 4

\* Page::from_file: a file that cannot be read gives the empty Page with the path.
Page_from_file(f, path, ok) ==
    LET page == [Page_new EXCEPT !.file_path = path]
        read == IF IsSome(path) THEN Fs_read_to_string(f, Unwrap(path), ok) ELSE None
    IN  IF IsSome(read) THEN Page_load_from_string(page, Unwrap(read)) ELSE page

\* OS call 1: the read_to_string of Page::from_file.
App_new(f, initial_path, io) ==
    [tabs |-> IF IsSome(initial_path)
              THEN <<Page_from_file(f, initial_path, IoOk(io, 1))>> ELSE <<>>,
     active_tab_index |-> 0,
     directory_view |-> Unwrap(DirectoryView_new(f, Cwd, TRUE)),
     active_pane |-> IF IsSome(initial_path) THEN "Editor" ELSE "FileTree",
     mode |-> IF IsSome(initial_path) THEN "Edit" ELSE "FileTree",
     command_buffer |-> <<>>,
     status_message |-> <<>>,
     should_quit |-> FALSE,
     find_query |-> <<>>,
     find_matches |-> <<>>,
     current_match_index |-> 0,
     path_to_delete |-> None,
     path_to_rename |-> None,
     find_navigation_active |-> FALSE,
     fs |-> f,
     panicked |-> FALSE,
     log |-> <<>>]

scroll_to_cursor(w, term_width, term_height) ==
    LET ftw == file_tree_width(term_width)
        view_height == term_height
    IN  IF w.active_pane = "Editor"
        THEN IF ~HasActivePage(w) THEN w
             ELSE LET page == ActivePage(w)
                      cursor_row == Page_cursor_row(page)
                      so == page.scroll_offset
                      evh == SatSub(view_height, 2)
                      new_so == IF cursor_row < so THEN cursor_row
                                ELSE IF cursor_row >= so + evh
                                     THEN cursor_row - evh + 1 ELSE so
                      cursor_col == Zipper_cursor_position(page.current)
                      hso == page.horizontal_scroll_offset
                      editor_width == SatSub(SatSub(term_width, ftw), 1)
                      text_width == SatSub(editor_width, line_gutter_width(page))
                      new_hso == IF cursor_col < hso THEN cursor_col
                                 ELSE IF cursor_col >= hso + text_width
                                      THEN cursor_col - text_width + 1 ELSE hso
                  IN  WithActivePage(w, [page EXCEPT !.scroll_offset = new_so,
                                                     !.horizontal_scroll_offset = new_hso])
        ELSE LET sel == w.directory_view.selected_index
                 so == w.directory_view.scroll_offset
                 fvh == SatSub(view_height, 2)
             IN  IF sel < so THEN [w EXCEPT !.directory_view.scroll_offset = sel]
                 ELSE IF sel >= so + fvh
                      THEN [w EXCEPT !.directory_view.scroll_offset = sel - fvh + 1]
                      ELSE w

\* The width of a tab's label in the tab bar: " name ".
tab_width(page) ==
    LET name == IF IsSome(page.file_path) THEN Path_file_name(Unwrap(page.file_path))
                ELSE None
    IN  IF IsSome(name) THEN StrByteLen(Unwrap(name)) + 2 ELSE 11

RECURSIVE tab_start(_, _, _)
tab_start(ts, i, editor_start_col) ==
    IF i = 1 THEN editor_start_col
    ELSE tab_start(ts, i - 1, editor_start_col) + tab_width(ts[i - 1])

\* The tab-bar click: the first tab whose label holds the column becomes active.
tab_bar_click(w, column, editor_start_col) ==
    LET hit == {i \in 1..Len(w.tabs) :
                   /\ column >= tab_start(w.tabs, i, editor_start_col)
                   /\ column < tab_start(w.tabs, i, editor_start_col) + tab_width(w.tabs[i])}
    IN  IF hit = {} THEN w
        ELSE [w EXCEPT !.active_tab_index = (CHOOSE i \in hit : \A j \in hit : i <= j) - 1]

\* The click into the editor's text.
\* editor_click that sets the mode and leaves the pane.
editor_click_keeping_pane(w, column, row, editor_start_col) ==
    LET w1 == [w EXCEPT !.mode = "Edit"]
    IN  IF ~HasActivePage(w1) THEN w1
        ELSE LET page == ActivePage(w1)
                 adjusted_row == SatSub(row, 1) + page.scroll_offset
                 adjusted_col == SatSub(column, editor_start_col + line_gutter_width(page))
             IN  WithActivePage(w1, Page_move_cursor_to(page, adjusted_row, adjusted_col))

editor_click(w, column, row, editor_start_col) ==
    LET w1 == [w EXCEPT !.active_pane = "Editor", !.mode = "Edit"]
    IN  IF ~HasActivePage(w1) THEN w1
        ELSE LET page == ActivePage(w1)
                 adjusted_row == SatSub(row, 1) + page.scroll_offset
                 adjusted_col == SatSub(column, editor_start_col + line_gutter_width(page))
             IN  WithActivePage(w1, Page_move_cursor_to(page, adjusted_row, adjusted_col))

handle_mouse_event(w, ev, term_width, term_height) ==
    LET ftw == file_tree_width(term_width)
        column == ev.column
        row == ev.row
        view_height == SatSub(term_height, 2)
        editor_start_col == ftw + 1
        dv == w.directory_view
    IN  CASE ev.code = "ScrollUp" ->
                IF column < ftw
                THEN [w EXCEPT !.directory_view.scroll_offset = SatSub(@, 1)]
                ELSE IF HasActivePage(w)
                     THEN WithActivePage(w, [ActivePage(w) EXCEPT !.scroll_offset = SatSub(@, 1)])
                     ELSE w
          [] ev.code = "ScrollDown" ->
                IF column < ftw
                THEN IF Len(dv.entries) > view_height
                     THEN [w EXCEPT !.directory_view.scroll_offset =
                                        Min(@ + 1, Len(dv.entries) - view_height)]
                     ELSE w
                ELSE IF HasActivePage(w)
                     THEN LET total_lines == Len(Page_get_all_lines(ActivePage(w)))
                          IN  IF total_lines > view_height
                              THEN WithActivePage(w, [ActivePage(w) EXCEPT !.scroll_offset =
                                                          Min(@ + 1, total_lines - view_height)])
                              ELSE w
                     ELSE w
          [] ev.code = "Down" ->
                IF column < ftw
                THEN LET w1 == [w EXCEPT !.active_pane = "FileTree", !.mode = "FileTree"]
                         target_index == SatSub(row, 1) + dv.scroll_offset
                     IN  IF dv.entries # <<>>
                         THEN [w1 EXCEPT !.directory_view.selected_index =
                                             Min(target_index, SatSub(Len(dv.entries), 1))]
                         ELSE w1
                ELSE IF row = 0 /\ column >= editor_start_col /\ w.tabs # <<>>
                     THEN tab_bar_click(w, column, editor_start_col)
                ELSE IF row > 0 /\ column >= editor_start_col /\ w.tabs # <<>>
                     THEN editor_click(w, column, row, editor_start_col)
                ELSE w
          [] OTHER -> w

(***************************************************************************)
(* The file tree.                                                          *)
(***************************************************************************)
SelectedEntry(w) ==
    IF w.directory_view.selected_index < Len(w.directory_view.entries)
    THEN Some(w.directory_view.entries[w.directory_view.selected_index + 1])
    ELSE None

\* The match on DirectoryView::new(parent) of go_up_directory.
enter_parent(w, parent, view) ==
    IF IsSome(view)
    THEN [w EXCEPT !.directory_view = Unwrap(view),
                   !.log = Append(@, <<"read_dir", parent, TRUE>>)]
    ELSE [w EXCEPT !.status_message = <<"Cannot access parent directory.", <<>>>>,
                   !.log = Append(@, <<"read_dir", parent, FALSE>>)]

\* OS call 1: read_dir of the parent.
go_up_directory(w, io) ==
    IF IsSome(Path_parent(w.directory_view.path))
    THEN enter_parent(w, Unwrap(Path_parent(w.directory_view.path)),
                      DirectoryView_new(w.fs, Unwrap(Path_parent(w.directory_view.path)),
                                        IoOk(io, 1)))
    ELSE w

\* The index of the first tab whose file_path is Some(path), or None.
tab_position(ts, path) ==
    LET found == {i \in 1..Len(ts) : ts[i].file_path = Some(path)}
    IN  IF found = {} THEN None
        ELSE Some((CHOOSE i \in found : \A j \in found : i <= j) - 1)

\* `if let Ok(new_view) = DirectoryView::new(..)`: a view that was read replaces the
\* snapshot, a failed read_dir leaves it.
with_directory_view(w, view) ==
    IF IsSome(view) THEN [w EXCEPT !.directory_view = Unwrap(view)] ELSE w

\* The closure of unwrap_or_else in open_selected_entry: the current directory is
\* read again, and unwrap() panics when that fails too.
reopen_current_directory(w, again) ==
    IF IsSome(again)
    THEN [w EXCEPT !.directory_view = Unwrap(again)]
    ELSE [w EXCEPT !.panicked = TRUE]

\* The selected entry is a directory.  OS call 1: its read_dir; OS call 2: read_dir
\* of the current directory after call 1 failed.
open_directory(w, path, io) ==
    IF Fs_read_dir(w.fs, path, IoOk(io, 1))
    THEN with_directory_view(Logged(w, "read_dir", path, TRUE),
                             DirectoryView_new(w.fs, path, IoOk(io, 1)))
    ELSE reopen_current_directory(
             [w EXCEPT !.status_message = <<"Error", <<"io">>>>,
                       !.log = @ \o <<<<"read_dir", path, FALSE>>,
                                      <<"read_dir", w.directory_view.path,
                                        Fs_read_dir(w.fs, w.directory_view.path,
                                                    IoOk(io, 2))>>>>],
             DirectoryView_new(w.fs, w.directory_view.path, IoOk(io, 2)))

\* open_file without the search for an open tab: a new tab is opened every time.
open_file_always_new(w, path, index, io) ==
    [w EXCEPT !.log = Append(@, <<"read", path, IoOk(io, 1) /\ Fs_is_file(w.fs, path)>>),
              !.tabs = Append(@, Page_from_file(w.fs, Some(path), IoOk(io, 1))),
              !.active_tab_index = Len(w.tabs),
              !.active_pane = "Editor", !.mode = "Edit"]

\* The selected entry is a file: its tab becomes active, or a new tab is opened.
\* OS call 1: the read_to_string of Page::from_file.
open_file(w, path, index, io) ==
    IF IsSome(index)
    THEN [w EXCEPT !.active_tab_index = Unwrap(index),
                   !.active_pane = "Editor", !.mode = "Edit"]
    ELSE [w EXCEPT !.log = Append(@, <<"read", path, IoOk(io, 1) /\ Fs_is_file(w.fs, path)>>),
                   !.tabs = Append(@, Page_from_file(w.fs, Some(path), IoOk(io, 1))),
                   !.active_tab_index = Len(w.tabs),
                   !.active_pane = "Editor", !.mode = "Edit"]

open_selected_entry(w, io) ==
    IF ~IsSome(SelectedEntry(w)) THEN w
    ELSE IF Fs_is_dir(w.fs, Unwrap(SelectedEntry(w)))
    THEN open_directory(w, Unwrap(SelectedEntry(w)), io)
    ELSE open_file(w, Unwrap(SelectedEntry(w)),
                   tab_position(w.tabs, Unwrap(SelectedEntry(w))), io)

prompt_for_delete(w) ==
    IF IsSome(SelectedEntry(w))
    THEN [w EXCEPT !.path_to_delete = SelectedEntry(w), !.mode = "ConfirmDelete"]
    ELSE w

prompt_for_rename(w) ==
    IF IsSome(SelectedEntry(w))
    THEN [w EXCEPT !.path_to_rename = SelectedEntry(w), !.mode = "PromptRename"]
    ELSE w

\* The Enter of the file tree with a non-empty command buffer.
file_tree_command(w) ==
    LET cmd == w.command_buffer
        w1 == [w EXCEPT !.command_buffer = <<>>]
    IN  CASE cmd = <<"d">> -> prompt_for_delete(w1)
          [] cmd = <<"n", "f">> -> [w1 EXCEPT !.mode = "PromptNewFile"]
          [] cmd = <<"n", "d">> -> [w1 EXCEPT !.mode = "PromptNewDirectory"]
          [] cmd = <<"r", "n">> -> prompt_for_rename(w1)
          [] OTHER -> [w1 EXCEPT !.status_message = <<"Unknown command", cmd>>]

\* The Tab arm of handle_file_tree_event without its look at the tabs.
file_tree_tab_to_edit(w) ==
    [w EXCEPT !.active_pane = "Editor", !.mode = "Edit", !.command_buffer = <<>>]

file_tree_tab(w) ==
    [w EXCEPT !.active_pane = "Editor",
              !.mode = IF w.tabs = <<>> THEN "Command" ELSE "Edit",
              !.command_buffer = <<>>]

\* The Esc arm of handle_file_tree_event with the file tree left focused.
file_tree_esc_keeping_pane(w) == [w EXCEPT !.mode = "Command", !.command_buffer = <<>>]

file_tree_esc(w) ==
    [w EXCEPT !.active_pane = "Editor", !.mode = "Command", !.command_buffer = <<>>]

handle_file_tree_event(w, ev, io) ==
    CASE ev.code = "Up" \/ (ev.code = "Char" /\ ev.c = "k") ->
            [w EXCEPT !.directory_view = DirectoryView_move_up(@)]
      [] ev.code = "Down" \/ (ev.code = "Char" /\ ev.c = "j") ->
            [w EXCEPT !.directory_view = DirectoryView_move_down(@)]
      [] ev.code = "Left" ->
            [go_up_directory(w, io) EXCEPT !.command_buffer = <<>>]
      [] ev.code = "Right" \/ (ev.code = "Char" /\ ev.c = "l") ->
            [open_selected_entry(w, io) EXCEPT !.command_buffer = <<>>]
      [] ev.code = "Enter" ->
            IF w.command_buffer = <<>> THEN open_selected_entry(w, io)
            ELSE file_tree_command(w)
      [] ev.code = "Esc" -> file_tree_esc(w)
      [] ev.code = "Tab" -> file_tree_tab(w)
      [] ev.code = "Char" /\ ev.c \notin {"k", "j", "l"} ->
            [w EXCEPT !.command_buffer = Append(@, ev.c)]
      [] ev.code = "Backspace" ->
            [w EXCEPT !.command_buffer = IF @ = <<>> THEN @ ELSE Front(@)]
      [] OTHER -> w

(***************************************************************************)
(* Delete, rename and create.                                              *)
(***************************************************************************)
\* clamp_active_tab_index without its `else if`: the index is left as it is while
\* tabs remain.
clamp_active_tab_index_unclamped(w) ==
    IF w.tabs = <<>> THEN [w EXCEPT !.mode = "Command", !.active_tab_index = 0] ELSE w

\* The index left after tabs were removed: 0 for no tabs, else at most the last.
clamp_active_tab_index(w) ==
    IF w.tabs = <<>> THEN [w EXCEPT !.mode = "Command", !.active_tab_index = 0]
    ELSE IF w.active_tab_index >= Len(w.tabs)
         THEN [w EXCEPT !.active_tab_index = Len(w.tabs) - 1]
         ELSE w

\* tabs.retain(|page| ...): the tabs whose file_path does not start with `path`.
RECURSIVE retain_not_under(_, _)
retain_not_under(ts, path) ==
    IF ts = <<>> THEN <<>>
    ELSE LET page == Head(ts)
             keep == IF IsSome(page.file_path)
                     THEN ~Path_starts_with(Unwrap(page.file_path), path)
                     ELSE TRUE
         IN  (IF keep THEN <<page>> ELSE <<>>) \o retain_not_under(Tail(ts), path)

\* The rebuild of the snapshot after a mutation: kept as it is when read_dir fails.
refresh_directory_view(w, ok) ==
    with_directory_view(
        Logged(w, "read_dir", w.directory_view.path,
               Fs_read_dir(w.fs, w.directory_view.path, ok)),
        DirectoryView_new(w.fs, w.directory_view.path, ok))

with_mode(w, new_mode) == [w EXCEPT !.mode = new_mode]

\* path.is_dir() chooses between remove_dir_all and remove_file.
remove_path(f, path, ok) ==
    IF Fs_is_dir(f, path) THEN Fs_remove_dir_all(f, path, ok) ELSE Fs_remove_file(f, path, ok)

\* delete_done with the rebuild of the snapshot moved behind the match, where it
\* runs after a failed removal too.
delete_done_rebuilding(w, path, result, io) ==
    refresh_directory_view(
        IF result.ok
        THEN clamp_active_tab_index(
                 [w EXCEPT !.fs = result.fs,
                           !.log = Append(@, <<"remove", path, TRUE>>),
                           !.status_message = <<"Deleted", path>>,
                           !.tabs = retain_not_under(@, path)])
        ELSE [w EXCEPT !.log = Append(@, <<"remove", path, FALSE>>),
                       !.status_message = <<"Error deleting", <<"io">>>>],
        IoOk(io, 2))

\* The match on the result of the removal.  OS call 2: read_dir of the current
\* directory.
delete_done(w, path, result, io) ==
    IF result.ok
    THEN refresh_directory_view(
             clamp_active_tab_index(
                 [w EXCEPT !.fs = result.fs,
                           !.log = Append(@, <<"remove", path, TRUE>>),
                           !.status_message = <<"Deleted", path>>,
                           !.tabs = retain_not_under(@, path)]),
             IoOk(io, 2))
    ELSE [w EXCEPT !.log = Append(@, <<"remove", path, FALSE>>),
                   !.status_message = <<"Error deleting", <<"io">>>>]

\* y or Y in ConfirmDelete.  OS call 1: remove_dir_all or remove_file.
confirm_delete(w, io) ==
    with_mode(IF IsSome(w.path_to_delete)
              THEN delete_done([w EXCEPT !.path_to_delete = None],
                               Unwrap(w.path_to_delete),
                               remove_path(w.fs, Unwrap(w.path_to_delete), IoOk(io, 1)),
                               io)
              ELSE w,
              "FileTree")

\* handle_delete_confirm_event without `self.path_to_delete = None` in the arm of
\* n, N and Esc.
handle_delete_confirm_event_keeping_path(w, ev, io) ==
    IF ev.code = "Char" /\ ev.c \in {"y", "Y"} THEN confirm_delete(w, io)
    ELSE IF (ev.code = "Char" /\ ev.c \in {"n", "N"}) \/ ev.code = "Esc"
    THEN [w EXCEPT !.status_message = <<"Delete cancelled.", <<>>>>,
                   !.mode = "FileTree"]
    ELSE w

handle_delete_confirm_event(w, ev, io) ==
    IF ev.code = "Char" /\ ev.c \in {"y", "Y"} THEN confirm_delete(w, io)
    ELSE IF (ev.code = "Char" /\ ev.c \in {"n", "N"}) \/ ev.code = "Esc"
    THEN [w EXCEPT !.path_to_delete = None,
                   !.status_message = <<"Delete cancelled.", <<>>>>,
                   !.mode = "FileTree"]
    ELSE w

RECURSIVE repoint_tabs(_, _, _)
repoint_tabs(ts, old_path, new_path) ==
    IF ts = <<>> THEN <<>>
    ELSE <<IF Head(ts).file_path = Some(old_path)
           THEN [Head(ts) EXCEPT !.file_path = Some(new_path)]
           ELSE Head(ts)>> \o repoint_tabs(Tail(ts), old_path, new_path)

\* rename_done without the loop over the tabs: a tab of the old path keeps it.
rename_done_not_repointing(w, old_path, new_path, result, io) ==
    IF result.ok
    THEN refresh_directory_view(
             [w EXCEPT !.fs = result.fs,
                       !.log = Append(@, <<"rename", old_path, TRUE>>),
                       !.status_message = <<"Renamed to", new_path>>],
             IoOk(io, 2))
    ELSE [w EXCEPT !.log = Append(@, <<"rename", old_path, FALSE>>),
                   !.status_message = <<"Error", <<"io">>>>]

\* The match on the result of fs::rename.  OS call 2: read_dir of the current
\* directory.
rename_done(w, old_path, new_path, result, io) ==
    IF result.ok
    THEN refresh_directory_view(
             [w EXCEPT !.fs = result.fs,
                       !.log = Append(@, <<"rename", old_path, TRUE>>),
                       !.status_message = <<"Renamed to", new_path>>,
                       !.tabs = repoint_tabs(@, old_path, new_path)],
             IoOk(io, 2))
    ELSE [w EXCEPT !.log = Append(@, <<"rename", old_path, FALSE>>),
                   !.status_message = <<"Error", <<"io">>>>]

\* OS call 1: rename.
rename_path(w, old_path, new_path, io) ==
    rename_done(w, old_path, new_path, Fs_rename(w.fs, old_path, new_path, IoOk(io, 1)), io)

execute_rename(w, new_name, io) ==
    with_mode(IF IsSome(w.path_to_rename)
              THEN rename_path([w EXCEPT !.path_to_rename = None],
                               Unwrap(w.path_to_rename),
                               Path_set_file_name(Unwrap(w.path_to_rename), new_name),
                               io)
              ELSE w,
              "FileTree")

\* A creation that fails when the path exists: create_new for a file.
create_path_new_only(f, path, item_mode, ok) ==
    IF item_mode = "PromptNewFile" THEN Fs_write(f, path, <<>>, ok /\ ~Fs_exists(f, path))
    ELSE Fs_create_dir(f, path, ok)

\* fs::write(&path, "") for a file, fs::create_dir for a directory.
create_path(f, path, item_mode, ok) ==
    IF item_mode = "PromptNewFile" THEN Fs_write(f, path, <<>>, ok)
    ELSE Fs_create_dir(f, path, ok)

\* open_new_file without `self.active_tab_index = self.tabs.len() - 1`.
open_new_file_inactive(w, path, ok) ==
    [w EXCEPT !.log = Append(@, <<"read", path, ok>>),
              !.tabs = Append(@, Page_from_file(w.fs, Some(path), ok)),
              !.active_pane = "Editor",
              !.mode = "Edit"]

\* The new file is opened in a new tab, which becomes active.
open_new_file(w, path, ok) ==
    [w EXCEPT !.log = Append(@, <<"read", path, ok>>),
              !.tabs = Append(@, Page_from_file(w.fs, Some(path), ok)),
              !.active_tab_index = Len(w.tabs),
              !.active_pane = "Editor",
              !.mode = "Edit"]

\* new_item_done without the Err arm's `self.mode = Mode::FileTree`: a failed
\* creation stays in the prompt.
new_item_done_staying(w, path, item_mode, result, io) ==
    IF result.ok
    THEN refresh_directory_view(
             IF item_mode = "PromptNewFile"
             THEN open_new_file([w EXCEPT !.fs = result.fs,
                                          !.log = Append(@, <<"create", path, TRUE>>),
                                          !.status_message = <<"Created", path>>],
                                path, IoOk(io, 2))
             ELSE [w EXCEPT !.fs = result.fs,
                            !.log = Append(@, <<"create", path, TRUE>>),
                            !.status_message = <<"Created", path>>,
                            !.mode = "FileTree"],
             IoOk(io, 3))
    ELSE [w EXCEPT !.log = Append(@, <<"create", path, FALSE>>),
                   !.status_message = <<"Error", <<"io">>>>]

\* The match on the result of the creation.  OS call 2: the read_to_string of the
\* new tab's Page::from_file; OS call 3: read_dir of the current directory.
new_item_done(w, path, item_mode, result, io) ==
    IF result.ok
    THEN refresh_directory_view(
             IF item_mode = "PromptNewFile"
             THEN open_new_file([w EXCEPT !.fs = result.fs,
                                          !.log = Append(@, <<"create", path, TRUE>>),
                                          !.status_message = <<"Created", path>>],
                                path, IoOk(io, 2))
             ELSE [w EXCEPT !.fs = result.fs,
                            !.log = Append(@, <<"create", path, TRUE>>),
                            !.status_message = <<"Created", path>>,
                            !.mode = "FileTree"],
             IoOk(io, 3))
    ELSE [w EXCEPT !.log = Append(@, <<"create", path, FALSE>>),
                   !.status_message = <<"Error", <<"io">>>>,
                   !.mode = "FileTree"]

\* OS call 1: write or create_dir.
execute_new_item(w, name, item_mode, io) ==
    new_item_done(w, Path_push(w.directory_view.path, name), item_mode,
                  create_path(w.fs, Path_push(w.directory_view.path, name), item_mode,
                              IoOk(io, 1)),
                  io)

clear_command_buffer(w) == [w EXCEPT !.command_buffer = <<>>]

\* The keys of PromptNewFile, PromptNewDirectory and PromptRename.
handle_prompt_input_event(w, ev, io) ==
    CASE ev.code = "Esc" ->
            [w EXCEPT !.status_message = <<"Cancelled.", <<>>>>,
                      !.command_buffer = <<>>,
                      !.mode = "FileTree"]
      [] ev.code = "Char" -> [w EXCEPT !.command_buffer = Append(@, ev.c)]
      [] ev.code = "Backspace" ->
            [w EXCEPT !.command_buffer = IF @ = <<>> THEN @ ELSE Front(@)]
      [] ev.code = "Enter" ->
            IF w.command_buffer = <<>> THEN w
            ELSE IF w.mode = "PromptRename"
            THEN execute_rename(clear_command_buffer(w), w.command_buffer, io)
            ELSE execute_new_item(clear_command_buffer(w), w.command_buffer, w.mode, io)
      [] OTHER -> w

(***************************************************************************)
(* Find.                                                                   *)
(***************************************************************************)
\* str::match_indices: the byte offsets of the matches of `query`, searched from
\* the left, each search resuming after the end of the match before it.
RECURSIVE match_indices_from(_, _, _)
match_indices_from(line, query, i) ==
    IF i + Len(query) > Len(line) THEN <<>>
    ELSE IF SubSeq(line, i + 1, i + Len(query)) = query
         THEN <<StrByteLen(Prefix(line, i))>> \o match_indices_from(line, query, i + Len(query))
         ELSE match_indices_from(line, query, i + 1)

match_indices(line, query) == match_indices_from(line, query, 0)

RECURSIVE matches_in_lines(_, _, _)
matches_in_lines(lines, query, row) ==
    IF row >= Len(lines) THEN <<>>
    ELSE LET cols == match_indices(lines[row + 1], query)
         IN  [k \in 1..Len(cols) |-> <<row, cols[k]>>] \o matches_in_lines(lines, query, row + 1)

jump_to_match(w) ==
    IF w.current_match_index < Len(w.find_matches) /\ HasActivePage(w)
    THEN LET m == w.find_matches[w.current_match_index + 1]
         IN  WithActivePage(w, Page_move_cursor_to(ActivePage(w), m[1], m[2]))
    ELSE w

\* update_search_matches without `self.current_match_index = 0`.
update_search_matches_keeping_index(w) ==
    IF w.find_query = <<>> THEN [w EXCEPT !.find_matches = <<>>]
    ELSE LET found == IF HasActivePage(w)
                      THEN matches_in_lines(Page_get_all_lines(ActivePage(w)), w.find_query, 0)
                      ELSE <<>>
         IN  jump_to_match([w EXCEPT !.find_matches = found])

update_search_matches(w) ==
    IF w.find_query = <<>> THEN [w EXCEPT !.find_matches = <<>>]
    ELSE LET found == IF HasActivePage(w)
                      THEN matches_in_lines(Page_get_all_lines(ActivePage(w)), w.find_query, 0)
                      ELSE <<>>
             w1 == [w EXCEPT !.find_matches = found]
         IN  IF found # <<>> THEN jump_to_match([w1 EXCEPT !.current_match_index = 0])
             ELSE w1

\* jump_to_next_match stopping at the last match.
jump_to_next_match_saturating(w) ==
    IF w.find_matches = <<>> THEN w
    ELSE jump_to_match([w EXCEPT !.current_match_index =
                                     Min(@ + 1, Len(w.find_matches) - 1)])

jump_to_next_match(w) ==
    IF w.find_matches = <<>> THEN w
    ELSE jump_to_match([w EXCEPT !.current_match_index =
                                     (@ + 1) % Len(w.find_matches)])

jump_to_prev_match(w) ==
    IF w.find_matches = <<>> THEN w
    ELSE jump_to_match([w EXCEPT !.current_match_index =
                                     (@ + Len(w.find_matches) - 1) % Len(w.find_matches)])

\* find_type_char appending to the query that was being visited.
find_type_char_appending(w, c) ==
    update_search_matches([w EXCEPT !.find_navigation_active = FALSE,
                                    !.find_query = Append(@, c)])

\* A character typed into the query.
find_type_char(w, c) ==
    LET w1 == IF w.find_navigation_active
              THEN [w EXCEPT !.find_query = <<>>, !.find_navigation_active = FALSE]
              ELSE w
    IN  update_search_matches([w1 EXCEPT !.find_query = Append(@, c)])

handle_find_event(w, ev) ==
    CASE ev.code = "Esc" ->
            [w EXCEPT !.mode = "Command", !.find_query = <<>>, !.find_matches = <<>>,
                      !.find_navigation_active = FALSE]
      [] ev.code = "Enter" ->
            IF w.find_query # <<>>
            THEN jump_to_match([w EXCEPT !.find_navigation_active = TRUE])
            ELSE w
      [] ev.code = "Char" ->
            IF ev.c = "n" /\ w.find_navigation_active /\ ev.mods = "NONE"
            THEN jump_to_next_match(w)
            ELSE IF ev.c \in {"N", "n"} /\ w.find_navigation_active /\ ev.mods = "SHIFT"
            THEN jump_to_prev_match(w)
            ELSE find_type_char(w, ev.c)
      [] ev.code = "Backspace" ->
            IF w.find_query # <<>>
            THEN update_search_matches([w EXCEPT !.find_navigation_active = FALSE,
                                                 !.find_query = Front(@)])
            ELSE w
      [] OTHER -> w

(***************************************************************************)
(* Saving, reverting and the command line.                                 *)
(***************************************************************************)
ActiveContent(w) ==
    IF HasActivePage(w) THEN Join(Page_get_all_lines(ActivePage(w))) ELSE <<>>

\* page.file_path = Some(path) on the active page, if there is one.
set_active_file_path(w, path) ==
    IF HasActivePage(w)
    THEN WithActivePage(w, [ActivePage(w) EXCEPT !.file_path = Some(path)])
    ELSE w

\* The match on the result of fs::write in handle_prompt_event.  OS call 2: read_dir
\* of the current directory.
prompt_save_done(w, path, result, io) ==
    IF result.ok
    THEN refresh_directory_view(
             set_active_file_path(
                 [w EXCEPT !.fs = result.fs,
                           !.log = Append(@, <<"write", path, TRUE>>),
                           !.status_message = <<"Saved to", path>>,
                           !.mode = "Command",
                           !.should_quit = @ \/ w.mode = "PromptSaveAndQuit",
                           !.command_buffer = <<>>],
                 path),
             IoOk(io, 2))
    ELSE [w EXCEPT !.log = Append(@, <<"write", path, FALSE>>),
                   !.status_message = <<"Error", <<"io">>>>,
                   !.mode = "Command",
                   !.command_buffer = <<>>]

\* The keys of PromptSave and PromptSaveAndQuit.  OS call 1: write.
handle_prompt_event(w, ev, io) ==
    CASE ev.code = "Esc" ->
            [w EXCEPT !.status_message = <<"Save cancelled.", <<>>>>,
                      !.command_buffer = <<>>,
                      !.mode = "Command"]
      [] ev.code = "Char" -> [w EXCEPT !.command_buffer = Append(@, ev.c)]
      [] ev.code = "Backspace" ->
            [w EXCEPT !.command_buffer = IF @ = <<>> THEN @ ELSE Front(@)]
      [] ev.code = "Enter" ->
            IF w.command_buffer = <<>> THEN w
            ELSE prompt_save_done(w, Path_push(w.directory_view.path, w.command_buffer),
                                  Fs_write(w.fs,
                                           Path_push(w.directory_view.path, w.command_buffer),
                                           ActiveContent(w), IoOk(io, 1)),
                                  io)
      [] OTHER -> w

\* The match on the result of fs::read_to_string in revert_active_file.
revert_done(w, path, contents) ==
    IF IsSome(contents)
    THEN [WithActivePage(w, Page_load_from_string(ActivePage(w), Unwrap(contents)))
             EXCEPT !.log = Append(w.log, <<"read", path, TRUE>>),
                    !.status_message = <<"Reverted to saved version.", <<>>>>]
    ELSE [w EXCEPT !.log = Append(@, <<"read", path, FALSE>>),
                   !.status_message = <<"Error reading file", path>>]

\* The path of the active page, or None.
active_file_path(w) == IF HasActivePage(w) THEN ActivePage(w).file_path ELSE None

\* OS call 1: read_to_string.
revert_active_file(w, io) ==
    IF IsSome(active_file_path(w))
    THEN revert_done(w, Unwrap(active_file_path(w)),
                     Fs_read_to_string(w.fs, Unwrap(active_file_path(w)), IoOk(io, 1)))
    ELSE [w EXCEPT !.status_message = <<"No file to revert from.", <<>>>>]

\* save_done without `page.file_path = Some(path)`: the buffer keeps its old path.
save_done_keeping_path(w, path, result, quit_after_app) ==
    IF result.ok
    THEN [w |-> [w EXCEPT !.fs = result.fs,
                          !.log = Append(@, <<"write", path, TRUE>>),
                          !.status_message = <<"Saved to", path>>,
                          !.should_quit = @ \/ quit_after_app],
          ok |-> TRUE]
    ELSE [w |-> [w EXCEPT !.log = Append(@, <<"write", path, FALSE>>),
                          !.status_message = <<"Error", <<"io">>>>],
          ok |-> FALSE]

\* The match on the result of fs::write in save_active_file.
save_done(w, path, result, quit_after_app) ==
    IF result.ok
    THEN [w |-> set_active_file_path(
                    [w EXCEPT !.fs = result.fs,
                              !.log = Append(@, <<"write", path, TRUE>>),
                              !.status_message = <<"Saved to", path>>,
                              !.should_quit = @ \/ quit_after_app],
                    path),
          ok |-> TRUE]
    ELSE [w |-> [w EXCEPT !.log = Append(@, <<"write", path, FALSE>>),
                          !.status_message = <<"Error", <<"io">>>>],
          ok |-> FALSE]

\* save_to without the prompt: with no path known the save fails with an error.
save_to_unprompted(w, path_to_write, quit_after_app, io) ==
    IF IsSome(path_to_write)
    THEN save_done(w, Unwrap(path_to_write),
                   Fs_write(w.fs, Unwrap(path_to_write), ActiveContent(w), IoOk(io, 1)),
                   quit_after_app)
    ELSE [w |-> [w EXCEPT !.status_message = <<"Error", <<"io">>>>], ok |-> FALSE]

\* `if let Some(path) = path_to_write`, else the prompt for a file name.
save_to(w, path_to_write, quit_after_app, io) ==
    IF IsSome(path_to_write)
    THEN save_done(w, Unwrap(path_to_write),
                   Fs_write(w.fs, Unwrap(path_to_write), ActiveContent(w), IoOk(io, 1)),
                   quit_after_app)
    ELSE [w |-> [w EXCEPT !.mode = IF quit_after_app THEN "PromptSaveAndQuit"
                                   ELSE "PromptSave",
                          !.command_buffer = <<>>],
          ok |-> FALSE]

\* save_active_file called to quit afterwards, whatever the caller passes.
save_active_file_quitting(w, arg, quit_after_app, io) ==
    save_to(w, IF IsSome(arg) THEN Some(<<Unwrap(arg)>>) ELSE active_file_path(w),
            TRUE, io)

\* OS call 1: write.  Returns [w |-> the state after, ok |-> the bool returned].
save_active_file(w, arg, quit_after_app, io) ==
    save_to(w, IF IsSome(arg) THEN Some(<<Unwrap(arg)>>) ELSE active_file_path(w),
            quit_after_app, io)

\* tabs.remove(active_tab_index) when there is a tab.
remove_active_tab(w) ==
    IF w.tabs # <<>>
    THEN [w EXCEPT !.tabs = Prefix(w.tabs, w.active_tab_index)
                                \o Suffix(w.tabs, w.active_tab_index + 1)]
    ELSE w

\* tabs.remove(active_tab_index), then the clamp.
close_active_tab(w) == clamp_active_tab_index(remove_active_tab(w))

\* wx: every tab with a path is written, tab i by OS call i.
RECURSIVE write_all_tabs(_, _, _)
write_all_tabs(w, i, io) ==
    IF i > Len(w.tabs) THEN w
    ELSE LET page == w.tabs[i]
         IN  IF ~IsSome(page.file_path) THEN write_all_tabs(w, i + 1, io)
             ELSE LET path == Unwrap(page.file_path)
                      result == Fs_write(w.fs, path, Join(Page_get_all_lines(page)),
                                         IoOk(io, i))
                  IN  write_all_tabs(Logged([w EXCEPT !.fs = result.fs],
                                            "write", path, result.ok), i + 1, io)

\* str::split_whitespace.
RECURSIVE split_whitespace_from(_, _)
split_whitespace_from(text, word) ==
    IF text = <<>> THEN (IF word = <<>> THEN <<>> ELSE <<word>>)
    ELSE IF Head(text) = " "
         THEN (IF word = <<>> THEN <<>> ELSE <<word>>) \o split_whitespace_from(Tail(text), <<>>)
         ELSE split_whitespace_from(Tail(text), Append(word, Head(text)))

split_whitespace(text) == split_whitespace_from(text, <<>>)

\* close_if_saved without the `if`: wq closes the tab whatever save_active_file
\* returned.
close_if_saved_always(saved) == close_active_tab(saved.w)

\* wq: the tab is closed when save_active_file returned true.
close_if_saved(saved) == IF saved.ok THEN close_active_tab(saved.w) ELSE saved.w

\* The paths of the writes of wx that failed, in the order of the tabs: `errors`.
RECURSIVE failed_paths(_)
failed_paths(l) ==
    IF l = <<>> THEN <<>>
    ELSE (IF Head(l)[3] THEN <<>> ELSE <<Head(l)[2]>>) \o failed_paths(Tail(l))

\* write_all_done that quits only when every write succeeded.
write_all_done_unless_errors(w) ==
    [w EXCEPT !.status_message = IF failed_paths(w.log) # <<>>
                                 THEN <<"Errors saving files", failed_paths(w.log)>>
                                 ELSE <<"All files saved.", <<>>>>,
              !.should_quit = failed_paths(w.log) = <<>>]

\* The end of wx, after the tabs were written.
write_all_done(w) ==
    [w EXCEPT !.status_message = IF failed_paths(w.log) # <<>>
                                 THEN <<"Errors saving files", failed_paths(w.log)>>
                                 ELSE <<"All files saved.", <<>>>>,
              !.should_quit = TRUE]

\* parts.get(0).unwrap_or("") and parts.get(1).
command_of(parts) == IF Len(parts) >= 1 THEN parts[1] ELSE <<>>
arg_of(parts) == IF Len(parts) >= 2 THEN Some(parts[2]) ELSE None

\* The match on the command.
run_command(w, command, arg, io) ==
    CASE command \in {<<"f">>, <<"f", "i", "n", "d">>} ->
            [w EXCEPT !.mode = "Find", !.find_query = <<>>]
      [] command \in {<<"q">>, <<"q", "u", "i", "t">>} -> close_active_tab(w)
      [] command \in {<<"x">>, <<"e", "x", "i", "t">>} -> [w EXCEPT !.should_quit = TRUE]
      [] command = <<"w", "x">> -> write_all_done(write_all_tabs(w, 1, io))
      [] command \in {<<"h">>, <<"h", "e", "l", "p">>} ->
            [w EXCEPT !.status_message = <<"Help", <<>>>>]
      [] command \in {<<"r">>, <<"r", "e", "v", "e", "r", "t">>} -> revert_active_file(w, io)
      [] command \in {<<"w">>, <<"w", "r", "i", "t", "e">>} ->
            save_active_file(w, arg, FALSE, io).w
      [] command = <<"w", "q">> -> close_if_saved(save_active_file(w, arg, FALSE, io))
      [] OTHER -> [w EXCEPT !.status_message = <<"Unknown command", w.command_buffer>>]

execute_command(w, io) ==
    clear_command_buffer(run_command(w, command_of(split_whitespace(w.command_buffer)),
                                     arg_of(split_whitespace(w.command_buffer)), io))

(***************************************************************************)
(* The editor pane and the dispatch.                                       *)
(***************************************************************************)
\* editor_esc without `!self.tabs.is_empty()`: Command always toggles to Edit.
editor_esc_unchecked(w) ==
    IF w.mode = "Edit" THEN [w EXCEPT !.mode = "Command"]
    ELSE IF w.mode = "Command"
         THEN [w EXCEPT !.mode = "Edit", !.command_buffer = <<>>]
         ELSE w

\* Esc in the editor pane outside Find and the save prompt.
editor_esc(w) ==
    IF w.mode = "Edit" THEN [w EXCEPT !.mode = "Command"]
    ELSE IF w.mode = "Command" /\ w.tabs # <<>>
         THEN [w EXCEPT !.mode = "Edit", !.command_buffer = <<>>]
         ELSE w

OnActivePage(w, p) == IF HasActivePage(w) THEN WithActivePage(w, p) ELSE w

handle_editor_event(w, ev, io) ==
    IF w.mode = "Find" THEN handle_find_event(w, ev)
    ELSE IF w.mode \in {"PromptSave", "PromptSaveAndQuit"} THEN handle_prompt_event(w, ev, io)
    ELSE LET edit == w.mode = "Edit" /\ HasActivePage(w)
             cmd == w.mode = "Command"
         IN  CASE ev.code = "Esc" -> editor_esc(w)
               [] ev.code = "Char" ->
                     IF edit
                     THEN WithActivePage(w, [ActivePage(w) EXCEPT
                                                !.current = Zipper_insert(@, ev.c)])
                     ELSE IF cmd THEN [w EXCEPT !.command_buffer = Append(@, ev.c)]
                     ELSE w
               [] ev.code = "Backspace" ->
                     IF edit THEN WithActivePage(w, Page_delete(ActivePage(w)))
                     ELSE IF cmd
                          THEN [w EXCEPT !.command_buffer = IF @ = <<>> THEN @ ELSE Front(@)]
                          ELSE w
               [] ev.code = "Enter" ->
                     IF edit
                     THEN IF Page_insert_newline_panics(ActivePage(w))
                          THEN [w EXCEPT !.panicked = TRUE]
                          ELSE WithActivePage(w, Page_insert_newline(ActivePage(w)))
                     ELSE IF cmd THEN execute_command(w, io)
                     ELSE w
               [] ev.code = "Left" ->
                     IF cmd
                     THEN IF Len(w.tabs) > 1
                          THEN [w EXCEPT !.active_tab_index =
                                             (@ + Len(w.tabs) - 1) % Len(w.tabs)]
                          ELSE w
                     ELSE IF edit
                          THEN WithActivePage(w, [ActivePage(w) EXCEPT
                                                     !.current = Zipper_move_left(@)])
                          ELSE w
               [] ev.code = "Right" ->
                     IF cmd
                     THEN IF Len(w.tabs) > 1
                          THEN [w EXCEPT !.active_tab_index = (@ + 1) % Len(w.tabs)]
                          ELSE w
                     ELSE IF edit
                          THEN WithActivePage(w, [ActivePage(w) EXCEPT
                                                     !.current = Zipper_move_right(@)])
                          ELSE w
               [] ev.code = "Up" ->
                     IF edit THEN WithActivePage(w, Page_move_up(ActivePage(w))) ELSE w
               [] ev.code = "Down" ->
                     IF edit THEN WithActivePage(w, Page_move_down(ActivePage(w))) ELSE w
               [] ev.code = "Tab" ->
                     [w EXCEPT !.active_pane = "FileTree", !.mode = "FileTree",
                               !.command_buffer = <<>>]
               [] OTHER -> w

\* The call of scroll_to_cursor that ends handle_key_event, not reached by a panic.
scroll_after_key(w, term_width, term_height) ==
    IF w.panicked THEN w ELSE scroll_to_cursor(w, term_width, term_height)

handle_key_event(w, ev, io, term_width, term_height) ==
    IF w.mode = "ConfirmDelete" THEN handle_delete_confirm_event(w, ev, io)
    ELSE IF w.mode \in {"PromptNewFile", "PromptNewDirectory", "PromptRename"}
    THEN handle_prompt_input_event(w, ev, io)
    ELSE scroll_after_key(IF w.active_pane = "Editor" THEN handle_editor_event(w, ev, io)
                          ELSE handle_file_tree_event(w, ev, io),
                          term_width, term_height)

\* The first statement of App::handle_event: the status message of the event before
\* is cleared (and with it the record of that event's OS calls).
clear_status_message(w) == [w EXCEPT !.status_message = <<>>, !.log = <<>>]

\* App::handle_event: the single entry point of the input events.
handle_event(w, ev, io, term_width, term_height) ==
    IF ev.kind = "key"
    THEN handle_key_event(clear_status_message(w), ev, io, term_width, term_height)
    ELSE handle_mouse_event(clear_status_message(w), ev, term_width, term_height)

(***************************************************************************)
(* The session.  Every step is one input event handled by                  *)
(* App::handle_event; the variables of the App, the file system and the    *)
(* record of the last event's OS calls are the state.                      *)
(***************************************************************************)
World ==
    [tabs |-> tabs, active_tab_index |-> active_tab_index,
     directory_view |-> directory_view, active_pane |-> active_pane, mode |-> mode,
     command_buffer |-> command_buffer, status_message |-> status_message,
     should_quit |-> should_quit, find_query |-> find_query,
     find_matches |-> find_matches, current_match_index |-> current_match_index,
     path_to_delete |-> path_to_delete, path_to_rename |-> path_to_rename,
     find_navigation_active |-> find_navigation_active,
     fs |-> fs, panicked |-> panicked, log |-> log]

IsWorld(w) ==
    /\ tabs = w.tabs /\ active_tab_index = w.active_tab_index
    /\ directory_view = w.directory_view /\ active_pane = w.active_pane
    /\ mode = w.mode /\ command_buffer = w.command_buffer
    /\ status_message = w.status_message /\ should_quit = w.should_quit
    /\ find_query = w.find_query /\ find_matches = w.find_matches
    /\ current_match_index = w.current_match_index
    /\ path_to_delete = w.path_to_delete /\ path_to_rename = w.path_to_rename
    /\ find_navigation_active = w.find_navigation_active
    /\ fs = w.fs /\ panicked = w.panicked /\ log = w.log

BecomesWorld(w) ==
    /\ tabs' = w.tabs /\ active_tab_index' = w.active_tab_index
    /\ directory_view' = w.directory_view /\ active_pane' = w.active_pane
    /\ mode' = w.mode /\ command_buffer' = w.command_buffer
    /\ status_message' = w.status_message /\ should_quit' = w.should_quit
    /\ find_query' = w.find_query /\ find_matches' = w.find_matches
    /\ current_match_index' = w.current_match_index
    /\ path_to_delete' = w.path_to_delete /\ path_to_rename' = w.path_to_rename
    /\ find_navigation_active' = w.find_navigation_active
    /\ fs' = w.fs /\ panicked' = w.panicked /\ log' = w.log

\* A file system of empty files and of directories, under the working directory.
FsOf(dirs, files) ==
    [q \in {Cwd} \cup dirs \cup files |-> IF q \in files THEN FileNode(<<>>) ELSE DirNode]

RelA == <<<<"a">>>>
AbsA == <<Root, <<"a">>>>
AbsS == <<Root, <<"s">>>>
AbsSA == <<Root, <<"s">>, <<"a">>>>
AbsT == <<Root, <<"t">>>>
RelSA == <<<<"s">>, <<"a">>>>
RelB == <<<<"b">>>>
AbsB == <<Root, <<"b">>>>
AbsC == <<Root, <<"c">>>>

(***************************************************************************)
(* The inputs.  A specification explores the session under a vocabulary V: *)
(*   fs      the file system the program starts in                         *)
(*   nodes   the most files and directories the file system holds          *)
(*   paths   the command-line argument (None, or Some(path))               *)
(*   cmd     the words typed on the command line                           *)
(*   tree    the words typed in the file tree                              *)
(*   names   the names typed into a prompt                                 *)
(*   text    the characters typed into a document                          *)
(*   find    the characters typed into the search query                    *)
(*   io      the sets of failing OS calls of one event                     *)
(*   clicks  the <<column, row>> of the mouse clicks                       *)
(*   scrolls the columns of the mouse wheel                                *)
(*   tabs    the most tabs open                                            *)
(*   lines   the most lines of a document                                  *)
(*   len     the most characters of a line                                 *)
(*   query   the most characters of the search query                       *)
(***************************************************************************)

IsPrefixOfWord(text, words) ==
    \E word \in words : Len(text) <= Len(word) /\ Prefix(word, Len(text)) = text

CharsOf(words) == UNION {{word[k] : k \in 1..Len(word)} : word \in words}

\* The characters offered in a state: those that continue a word of the mode, the
\* keys a mode reads as keys, and the text typed into a document or a query.
OfferedChars(w, V) ==
    LET continuing(words) ==
            {c \in CharsOf(words) : IsPrefixOfWord(Append(w.command_buffer, c), words)}
    IN  CASE w.mode = "ConfirmDelete" -> {"y", "Y", "n", "N", "z"}
          [] w.mode \in {"PromptNewFile", "PromptNewDirectory", "PromptRename",
                         "PromptSave", "PromptSaveAndQuit"} -> continuing(V.names)
          [] w.mode = "Edit" -> V.text
          [] w.mode = "Find" -> V.find
          [] w.mode = "FileTree" -> {"j", "k", "l"} \cup continuing(V.tree)
          [] OTHER -> continuing(V.cmd)

PageInBounds(page, V) ==
    LET lines == Page_get_all_lines(page)
    IN  /\ Len(lines) <= V.lines
        /\ \A k \in 1..Len(lines) : Len(lines[k]) <= V.len

\* The states the session is explored in.
InBounds(w, V) ==
    /\ Len(w.tabs) <= V.tabs
    /\ \A k \in 1..Len(w.tabs) : PageInBounds(w.tabs[k], V)
    /\ Cardinality(DOMAIN w.fs) <= V.nodes
    /\ Len(w.find_query) <= V.query

KeyEvent(code, c, mods) ==
    [kind |-> "key", code |-> code, c |-> c, mods |-> mods, column |-> 0, row |-> 0]
MouseEvent(code, column, row) ==
    [kind |-> "mouse", code |-> code, c |-> "", mods |-> "NONE", column |-> column, row |-> row]

\* The events whose handler makes an OS call: for every other event the choice of
\* the failing calls changes nothing, and one choice stands for all.
MakesOsCall(w, ev) ==
    LET char(cs) == ev.code = "Char" /\ ev.c \in cs
    IN  CASE w.mode = "ConfirmDelete" -> char({"y", "Y"})
          [] w.mode \in {"PromptNewFile", "PromptNewDirectory", "PromptRename"} ->
                ev.code = "Enter"
          [] w.active_pane = "FileTree" -> ev.code \in {"Left", "Right", "Enter"} \/ char({"l"})
          [] w.mode \in {"Command", "PromptSave", "PromptSaveAndQuit"} -> ev.code = "Enter"
          [] OTHER -> FALSE

\* The event loop reads an event until the program quits or has panicked.
Running == ~panicked /\ ~should_quit

Handle(ev, V) ==
    /\ \E io \in IF MakesOsCall(World, ev) THEN V.io ELSE {{}} :
          \E w \in {handle_event(World, ev, io, TermWidth, TermHeight)} :
             IF w.panicked
             THEN panicked' = TRUE /\ UNCHANGED appVars
             ELSE InBounds(w, V) /\ BecomesWorld(w)
    /\ UNCHANGED <<zipVars, pageVars>>

Start(V) ==
    /\ \E initial_path \in V.paths : IsWorld(App_new(V.fs, initial_path, {}))
    /\ z = Zipper_new /\ z_op = "new" /\ z_pre = Zipper_new
    /\ n_ins = 0 /\ n_del = 0
    /\ pg = Page_new /\ pg_op = <<"new">> /\ pg_pre = Page_new

KeyChar(V) ==
    /\ Running
    /\ \E c \in OfferedChars(World, V) : Handle(KeyEvent("Char", c, "NONE"), V)
KeyShiftChar(V) ==
    /\ Running
    /\ mode = "Find"
    /\ \E c \in {"n", "N"} \cap V.find : Handle(KeyEvent("Char", c, "SHIFT"), V)
KeyEnter(V) == Running /\ Handle(KeyEvent("Enter", "", "NONE"), V)
KeyEsc(V) == Running /\ Handle(KeyEvent("Esc", "", "NONE"), V)
KeyTab(V) == Running /\ Handle(KeyEvent("Tab", "", "NONE"), V)
KeyBackspace(V) == Running /\ Handle(KeyEvent("Backspace", "", "NONE"), V)
KeyLeft(V) == Running /\ Handle(KeyEvent("Left", "", "NONE"), V)
KeyRight(V) == Running /\ Handle(KeyEvent("Right", "", "NONE"), V)
KeyUp(V) == Running /\ Handle(KeyEvent("Up", "", "NONE"), V)
KeyDown(V) == Running /\ Handle(KeyEvent("Down", "", "NONE"), V)
MouseDown(V) == Running /\ \E at \in V.clicks : Handle(MouseEvent("Down", at[1], at[2]), V)
MouseScrollUp(V) == Running /\ \E column \in V.scrolls : Handle(MouseEvent("ScrollUp", column, 1), V)
MouseScrollDown(V) == Running /\ \E column \in V.scrolls : Handle(MouseEvent("ScrollDown", column, 1), V)

\* The k-th column of the editor pane; the file tree holds column 0.
EditorColumn(k) == file_tree_width(TermWidth) + 1 + k

(***************************************************************************)
(* Spec: the session of the tabs and of the delete dialog.  The working    *)
(* directory holds the file "a" and the directory "s" with a file "a" of   *)
(* its own; the program is started with no argument or with the relative   *)
(* path "a".  Files are opened from the tree, tabs are chosen with the     *)
(* mouse and closed with q and wq, entries are deleted, and every OS call  *)
(* may fail.                                                               *)
(***************************************************************************)
VSession ==
    [fs |-> FsOf({AbsS}, {AbsA, AbsSA}),
     nodes |-> MaxNodes,
     paths |-> {None, Some(RelA)},
     cmd |-> {<<"q">>, <<"w", "q">>},
     tree |-> {<<"d">>},
     names |-> {},
     text |-> {},
     find |-> {},
     io |-> {{}, {1}, {2}, {3}, {1, 2}},
     clicks |-> {<<0, 1>>, <<0, 2>>,
                 <<EditorColumn(0), 0>>, <<EditorColumn(3), 0>>, <<EditorColumn(0), 1>>},
     scrolls |-> {},
     tabs |-> MaxTabs, lines |-> TextLines, len |-> TextLen, query |-> TextLen]

Init == Start(VSession)

Next ==
    \/ KeyChar(VSession) \/ KeyEnter(VSession) \/ KeyEsc(VSession) \/ KeyTab(VSession)
    \/ KeyBackspace(VSession) \/ KeyLeft(VSession) \/ KeyRight(VSession)
    \/ KeyUp(VSession) \/ KeyDown(VSession) \/ MouseDown(VSession)

Spec == Init /\ [][Next]_vars

(***************************************************************************)
(* SpecTree: the session of the file tree's commands.  One file is         *)
(* deleted, renamed and opened, files and directories are created beside   *)
(* it, and every OS call may fail.                                         *)
(***************************************************************************)
VTree ==
    [fs |-> FsOf({}, {AbsA}),
     nodes |-> TreeNodes,
     paths |-> {None},
     cmd |-> {},
     tree |-> {<<"d">>, <<"r", "n">>, <<"n", "f">>, <<"n", "d">>},
     names |-> {<<"b">>},
     text |-> {},
     find |-> {},
     io |-> {{}, {1}, {2}, {3}, {1, 2}},
     clicks |-> {},
     scrolls |-> {},
     tabs |-> MaxTabs, lines |-> TextLines, len |-> TextLen, query |-> TextLen]

TreeInit == Start(VTree)

TreeNext ==
    \/ KeyChar(VTree) \/ KeyEnter(VTree) \/ KeyEsc(VTree) \/ KeyTab(VTree)
    \/ KeyBackspace(VTree) \/ KeyLeft(VTree) \/ KeyRight(VTree)
    \/ KeyUp(VTree) \/ KeyDown(VTree)

SpecTree == TreeInit /\ [][TreeNext]_vars

(***************************************************************************)
(* SpecSave: the session of the command line's w, wq, wx, q and r and of   *)
(* the save prompt.  The working directory holds the file "a"; the program *)
(* is started with no argument or with the relative path "a", the file is  *)
(* opened from the tree as well, "x" is typed into the documents, and      *)
(* every write may fail.  App::new and the handlers give every tab a path: *)
(* a tab with no path is one the embedding program has pushed into the     *)
(* public field `tabs` (Page::new()), and the session starts with such a   *)
(* tab as well.                                                            *)
(***************************************************************************)
VSave ==
    [fs |-> FsOf({}, {AbsA}),
     nodes |-> TreeNodes,
     paths |-> {None, Some(RelA)},
     cmd |-> {<<"w">>, <<"w", " ", "b">>, <<"w", "q">>, <<"w", "q", " ", "b">>,
              <<"w", "x">>, <<"q">>, <<"r">>},
     tree |-> {},
     names |-> {<<"b">>},
     text |-> {"x"},
     find |-> {},
     io |-> {{}, {1}, {2}},
     clicks |-> {},
     scrolls |-> {},
     tabs |-> MaxTabs, lines |-> TextLines, len |-> TextLen, query |-> TextLen]

\* App::new(None), and then tabs.push(Page::new()) with the editor focused.
StartUnsaved(V) ==
    /\ IsWorld([App_new(V.fs, None, {}) EXCEPT !.tabs = <<Page_new>>,
                                               !.active_pane = "Editor",
                                               !.mode = "Edit"])
    /\ z = Zipper_new /\ z_op = "new" /\ z_pre = Zipper_new
    /\ n_ins = 0 /\ n_del = 0
    /\ pg = Page_new /\ pg_op = <<"new">> /\ pg_pre = Page_new

SaveInit == Start(VSave) \/ StartUnsaved(VSave)

SaveNext ==
    \/ KeyChar(VSave) \/ KeyEnter(VSave) \/ KeyEsc(VSave) \/ KeyTab(VSave)
    \/ KeyBackspace(VSave) \/ KeyLeft(VSave) \/ KeyRight(VSave)
    \/ KeyUp(VSave) \/ KeyDown(VSave)

SpecSave == SaveInit /\ [][SaveNext]_vars

(***************************************************************************)
(* SpecNav: the session of the navigation in the file tree.  The working   *)
(* directory holds the directories "s", with a file "a", and "t"; the      *)
(* program is started with no argument or with the path "s/a".  The        *)
(* directories are entered and left, entries are chosen with the keys and  *)
(* with the mouse, the file is opened and closed with q, and the read_dir  *)
(* of a navigation may fail, alone or together with the read_dir that      *)
(* follows it.                                                             *)
(***************************************************************************)
VNav ==
    [fs |-> FsOf({AbsS, AbsT}, {AbsSA}),
     nodes |-> MaxNodes,
     paths |-> {None, Some(RelSA)},
     cmd |-> {<<"q">>},
     tree |-> {},
     names |-> {},
     text |-> {},
     find |-> {},
     io |-> {{}, {1}, {1, 2}},
     clicks |-> {<<0, 1>>, <<0, 2>>},
     scrolls |-> {},
     tabs |-> MaxTabs, lines |-> TextLines, len |-> TextLen, query |-> TextLen]

NavInit == Start(VNav)

NavNext ==
    \/ KeyChar(VNav) \/ KeyEnter(VNav) \/ KeyEsc(VNav) \/ KeyTab(VNav)
    \/ KeyBackspace(VNav) \/ KeyLeft(VNav) \/ KeyRight(VNav)
    \/ KeyUp(VNav) \/ KeyDown(VNav) \/ MouseDown(VNav)

SpecNav == NavInit /\ [][NavNext]_vars

(***************************************************************************)
(* SpecFind: the session of the search.  The program is started with the   *)
(* path "a" of a file of two lines, "aaa" and "éa".  The cursor is moved   *)
(* with the keys, characters are deleted with Backspace, and the command f *)
(* opens the search, where "a" and "n" are typed and the matches are       *)
(* visited with n and with Shift+n.                                        *)
(***************************************************************************)
FindText == <<"a", "a", "a", NL, WideChar, "a">>

VFind ==
    [fs |-> [FsOf({}, {AbsA}) EXCEPT ![AbsA] = FileNode(FindText)],
     nodes |-> TreeNodes,
     paths |-> {Some(RelA)},
     cmd |-> {<<"f">>},
     tree |-> {},
     names |-> {},
     text |-> {},
     find |-> {"a", "n"},
     io |-> {{}},
     clicks |-> {},
     scrolls |-> {},
     tabs |-> FindTabs, lines |-> FindLines, len |-> FindLen, query |-> QueryLen]

FindInit == Start(VFind)

FindNext ==
    \/ KeyChar(VFind) \/ KeyShiftChar(VFind) \/ KeyEnter(VFind) \/ KeyEsc(VFind)
    \/ KeyTab(VFind) \/ KeyBackspace(VFind) \/ KeyLeft(VFind) \/ KeyRight(VFind)
    \/ KeyUp(VFind) \/ KeyDown(VFind)

SpecFind == FindInit /\ [][FindNext]_vars

(***************************************************************************)
(* SpecClick: the session of the mouse in a document.  The program is      *)
(* started with the same file of two lines; the text area shows one line   *)
(* and two columns of it.  The cursor is moved with the keys, which scroll *)
(* the view after it, and with clicks in the editor pane, on the tab bar   *)
(* and in the file tree; characters are deleted with Backspace.            *)
(***************************************************************************)
VClick ==
    [fs |-> [FsOf({}, {AbsA}) EXCEPT ![AbsA] = FileNode(FindText)],
     nodes |-> TreeNodes,
     paths |-> {Some(RelA)},
     cmd |-> {},
     tree |-> {},
     names |-> {},
     text |-> {},
     find |-> {},
     io |-> {{}},
     clicks |-> {<<0, 1>>, <<EditorColumn(0), 0>>,
                 <<EditorColumn(0), 1>>, <<EditorColumn(3), 1>>, <<EditorColumn(4), 1>>,
                 <<EditorColumn(4), 2>>},
     scrolls |-> {},
     tabs |-> FindTabs, lines |-> FindLines, len |-> FindLen, query |-> QueryLen]

ClickInit == Start(VClick)

ClickNext ==
    \/ KeyBackspace(VClick) \/ KeyLeft(VClick) \/ KeyRight(VClick)
    \/ KeyUp(VClick) \/ KeyDown(VClick) \/ MouseDown(VClick)

SpecClick == ClickInit /\ [][ClickNext]_vars

(***************************************************************************)
(* SpecFindTabs: the session of the search among two tabs.  The working    *)
(* directory holds the file "a" of the one line "a"; the program is        *)
(* started with the path "b" of no file, which gives an empty document,    *)
(* and "a" is opened from the tree beside it.  The command f opens the     *)
(* search, "a" is typed into the query, and the tabs, the editor pane and  *)
(* the file tree are clicked.                                              *)
(***************************************************************************)
VFindTabs ==
    [fs |-> [FsOf({}, {AbsA}) EXCEPT ![AbsA] = FileNode(<<"a">>)],
     nodes |-> TreeNodes,
     paths |-> {Some(RelB)},
     cmd |-> {<<"f">>},
     tree |-> {},
     names |-> {},
     text |-> {},
     find |-> {"a"},
     io |-> {{}},
     clicks |-> {<<0, 1>>, <<EditorColumn(0), 0>>, <<EditorColumn(3), 0>>,
                 <<EditorColumn(3), 1>>},
     scrolls |-> {},
     tabs |-> MaxTabs, lines |-> TextLines, len |-> TextLen, query |-> TextLen]

FindTabsInit == Start(VFindTabs)

FindTabsNext ==
    \/ KeyChar(VFindTabs) \/ KeyEnter(VFindTabs) \/ KeyEsc(VFindTabs)
    \/ KeyTab(VFindTabs) \/ KeyBackspace(VFindTabs) \/ MouseDown(VFindTabs)

SpecFindTabs == FindTabsInit /\ [][FindTabsNext]_vars

(***************************************************************************)
(* SpecDelete: the session of the delete dialog among three tabs.  The     *)
(* working directory holds the files "a", "b" and "c"; the program is      *)
(* started with no argument.  The files are opened from the tree, where    *)
(* opening an open file makes its tab the active one, and entries are      *)
(* deleted; the remove may fail.                                           *)
(***************************************************************************)
VDelete ==
    [fs |-> FsOf({}, {AbsA, AbsB, AbsC}),
     nodes |-> MaxNodes,
     paths |-> {None},
     cmd |-> {},
     tree |-> {<<"d">>},
     names |-> {},
     text |-> {},
     find |-> {},
     io |-> {{}, {1}},
     clicks |-> {},
     scrolls |-> {},
     tabs |-> DeleteTabs, lines |-> TextLines, len |-> TextLen, query |-> TextLen]

DeleteInit == Start(VDelete)

DeleteNext ==
    \/ KeyChar(VDelete) \/ KeyEnter(VDelete) \/ KeyEsc(VDelete) \/ KeyTab(VDelete)
    \/ KeyBackspace(VDelete) \/ KeyUp(VDelete) \/ KeyDown(VDelete)

SpecDelete == DeleteInit /\ [][DeleteNext]_vars

(***************************************************************************)
(* SpecEdit: the session of editing among two tabs.  The working directory *)
(* holds the file "a" with the line "x" and the empty file "b"; the        *)
(* program is started with the path "a" and "b" is opened from the tree.   *)
(* "x" is typed, lines are split and joined, the cursor is moved with the  *)
(* keys and with the mouse, the tabs are chosen on the tab bar, the        *)
(* documents are reverted with r and closed with q, and the read of a      *)
(* revert may fail.                                                        *)
(***************************************************************************)
VEdit ==
    [fs |-> [FsOf({}, {AbsA, AbsB}) EXCEPT ![AbsA] = FileNode(<<"x">>)],
     nodes |-> TreeNodes,
     paths |-> {Some(RelA)},
     cmd |-> {<<"r">>, <<"q">>},
     tree |-> {},
     names |-> {},
     text |-> {"x"},
     find |-> {},
     io |-> {{}, {1}},
     clicks |-> {<<EditorColumn(0), 0>>, <<EditorColumn(3), 0>>, <<EditorColumn(3), 2>>},
     scrolls |-> {},
     tabs |-> MaxTabs, lines |-> MaxLines, len |-> TextLen, query |-> TextLen]

EditInit == Start(VEdit)

EditNext ==
    \/ KeyChar(VEdit) \/ KeyEnter(VEdit) \/ KeyEsc(VEdit) \/ KeyTab(VEdit)
    \/ KeyBackspace(VEdit) \/ KeyLeft(VEdit) \/ KeyRight(VEdit)
    \/ KeyUp(VEdit) \/ KeyDown(VEdit) \/ MouseDown(VEdit)

SpecEdit == EditInit /\ [][EditNext]_vars

(***************************************************************************)
(* SpecCreate: the session of nf over a file that exists.  The working     *)
(* directory holds the file "a" with the line "x"; the program is started  *)
(* with no argument or with the path "a".  The file is opened from the     *)
(* tree, nf is given the name "a", and the write of the creation and the   *)
(* read of the new tab may fail.                                           *)
(***************************************************************************)
VCreate ==
    [fs |-> [FsOf({}, {AbsA}) EXCEPT ![AbsA] = FileNode(<<"x">>)],
     nodes |-> TreeNodes,
     paths |-> {None, Some(RelA)},
     cmd |-> {},
     tree |-> {<<"n", "f">>},
     names |-> {<<"a">>},
     text |-> {},
     find |-> {},
     io |-> {{}, {1}, {2}},
     clicks |-> {},
     scrolls |-> {},
     tabs |-> DeleteTabs, lines |-> TextLines, len |-> TextLen, query |-> TextLen]

CreateInit == Start(VCreate)

CreateNext ==
    \/ KeyChar(VCreate) \/ KeyEnter(VCreate) \/ KeyEsc(VCreate) \/ KeyTab(VCreate)
    \/ KeyBackspace(VCreate) \/ KeyLeft(VCreate) \/ KeyRight(VCreate)

SpecCreate == CreateInit /\ [][CreateNext]_vars

(***************************************************************************)
(* SpecZipper: the Zipper's operations applied in any order to a Zipper    *)
(* that starts empty.  n_ins counts the inserts, n_del the deletes that    *)
(* removed a character.                                                    *)
(***************************************************************************)
ZInit ==
    /\ IsWorld(App_new(FsOf({}, {}), None, {}))
    /\ z = Zipper_new /\ z_op = "new" /\ z_pre = Zipper_new
    /\ n_ins = 0 /\ n_del = 0
    /\ pg = Page_new /\ pg_op = <<"new">> /\ pg_pre = Page_new

ZStep(op, next) ==
    /\ z' = next
    /\ z_op' = op
    /\ z_pre' = z
    /\ UNCHANGED <<appVars, pageVars, panicked>>

ZInsert ==
    /\ n_ins < MaxInserts
    /\ \E c \in PageChars : ZStep("insert", Zipper_insert(z, c))
    /\ n_ins' = n_ins + 1
    /\ UNCHANGED n_del

ZDelete ==
    /\ ZStep("delete", Zipper_delete(z))
    /\ n_del' = IF Zipper_cursor_position(z) > 0 THEN n_del + 1 ELSE n_del
    /\ UNCHANGED n_ins

ZMoveLeft ==
    /\ ZStep("move_left", Zipper_move_left(z))
    /\ UNCHANGED <<n_ins, n_del>>

ZMoveRight ==
    /\ ZStep("move_right", Zipper_move_right(z))
    /\ UNCHANGED <<n_ins, n_del>>

ZNext == ZInsert \/ ZDelete \/ ZMoveLeft \/ ZMoveRight

SpecZipper == ZInit /\ [][ZNext]_vars

(***************************************************************************)
(* SpecPage: the Page's operations applied in any order to a Page that     *)
(* starts as Page::new().  pg_op names the last operation and pg_pre is    *)
(* the Page it was applied to.                                             *)
(***************************************************************************)
PInit == ZInit

PStep(op, next) ==
    /\ ~panicked
    /\ pg' = next
    /\ pg_op' = op
    /\ pg_pre' = pg
    /\ UNCHANGED <<appVars, zipVars, panicked>>

PInsert ==
    /\ Len(Zipper_to_string(pg.current)) < MaxLineLen
    /\ \E c \in PageChars :
          PStep(<<"insert", c>>, [pg EXCEPT !.current = Zipper_insert(pg.current, c)])

PInsertNewline ==
    /\ ~panicked
    /\ Len(Page_get_all_lines(pg)) < MaxLines
    /\ IF Page_insert_newline_panics(pg)
       THEN /\ panicked' = TRUE
            /\ pg_op' = <<"insert_newline">>
            /\ pg_pre' = pg
            /\ UNCHANGED <<pg, appVars, zipVars>>
       ELSE PStep(<<"insert_newline">>, Page_insert_newline(pg))

\* A backspace that merges two lines is offered while the merged line fits the bound.
PDelete ==
    /\ IF Zipper_cursor_position(pg.current) = 0 /\ pg.before # <<>>
       THEN Len(Last(pg.before)) + Len(Zipper_to_string(pg.current)) <= MaxLineLen
       ELSE TRUE
    /\ PStep(<<"delete">>, Page_delete(pg))

PMoveLeft == PStep(<<"move_left">>, [pg EXCEPT !.current = Zipper_move_left(pg.current)])

PMoveRight == PStep(<<"move_right">>, [pg EXCEPT !.current = Zipper_move_right(pg.current)])

PMoveUp == PStep(<<"move_up">>, Page_move_up(pg))

PMoveDown == PStep(<<"move_down">>, Page_move_down(pg))

PMoveCursorTo ==
    \E row \in 0..MaxLines, col \in 0..(2 * MaxLineLen + 1) :
        PStep(<<"move_cursor_to", row, col>>, Page_move_cursor_to(pg, row, col))

\* Save (get_all_lines().join("\n") written to the file) and load the file again.
PSaveLoad ==
    PStep(<<"save_load">>, Page_load_from_string(pg, Join(Page_get_all_lines(pg))))

PNext ==
    \/ PInsert \/ PInsertNewline \/ PDelete
    \/ PMoveLeft \/ PMoveRight \/ PMoveUp \/ PMoveDown
    \/ PMoveCursorTo \/ PSaveLoad

SpecPage == PInit /\ [][PNext]_vars

(***************************************************************************)
(* Claims about the session.                                               *)
(***************************************************************************)
\* C1: in every reachable state path_to_delete is Some if and only if
\* mode = ConfirmDelete.
C1_PathToDeleteIffConfirmDelete ==
    IsSome(path_to_delete) <=> mode = "ConfirmDelete"

\* C2: in every reachable state path_to_rename is Some if and only if
\* mode = PromptRename; it is cleared when the rename prompt is cancelled with Esc.
C2_PathToRenameIffPromptRename ==
    IsSome(path_to_rename) <=> mode = "PromptRename"

\* C3: in every reachable state active_tab_index < len(tabs) when there are tabs,
\* and active_tab_index = 0 when there are none.
C3_ActiveTabIndexInRange ==
    IF tabs = <<>> THEN active_tab_index = 0 ELSE active_tab_index < Len(tabs)

\* With the tabs of /a and /s/a open, the delete of /a has closed its tab, and the
\* tab of /s/a is the active one.
C3_Witness ==
    /\ status_message = <<"Deleted", AbsA>>
    /\ Len(tabs) = 1 /\ active_tab_index = 0
    /\ tabs[1].file_path = Some(AbsSA)

\* C4: in every reachable state mode = Edit implies that a tab is open.
C4_EditHasTab ==
    mode = "Edit" => tabs # <<>>

\* The last tab was closed by the delete of its file, and Tab has moved from the
\* file tree to the editor pane, which has no tab to edit.
C4_Witness ==
    /\ tabs = <<>> /\ active_pane = "Editor" /\ mode = "Command"
    /\ ~Fs_exists(fs, AbsA)

\* The OS calls of the last event that changed or tried to change the file system.
Mutations(l) ==
    {k \in 1..Len(l) : l[k][1] \in {"remove", "rename", "create"}}

\* The listing DirectoryView::new gives for the path of the snapshot.
FreshListing(f, dv) == Unwrap(DirectoryView_new(f, dv.path, TRUE))

\* C9 as stated: after a delete, a create or a rename, failed or not, the snapshot
\* is rebuilt: the current path is read again, and where that read_dir succeeded the
\* snapshot is a fresh listing (entries re-read, selected_index reset).
C9_RebuiltAfterEveryMutation ==
    (~panicked /\ Mutations(log) # {}) =>
        /\ Last(log)[1] = "read_dir"
        /\ Last(log)[2] = directory_view.path
        /\ Last(log)[3] => directory_view = FreshListing(fs, directory_view)

\* C9 amended: after a mutation whose OS call succeeded the snapshot is a fresh
\* listing of the current path, unless the read_dir of the rebuild failed, which
\* leaves it as it was; after a mutation whose OS call failed no read_dir is made
\* and the snapshot is left as it was.
C9_RebuiltAfterSuccessOnly ==
    [][\A k \in Mutations(log') :
          ~panicked' =>
             IF log'[k][3]
             THEN /\ Len(log') > k
                  /\ Last(log')[1] = "read_dir"
                  /\ Last(log')[2] = directory_view.path
                  /\ directory_view' = IF Last(log')[3]
                                       THEN FreshListing(fs', directory_view)
                                       ELSE directory_view
             ELSE /\ Len(log') = k
                  /\ directory_view' = directory_view]_vars

\* A delete has failed with the second entry selected, and the second entry is
\* still selected.
C9_Witness ==
    /\ Mutations(log) # {}
    /\ Last(log) = <<"remove", AbsA, FALSE>>
    /\ directory_view.selected_index = 1
    /\ directory_view # FreshListing(fs, directory_view)

\* The tabs of ts whose file does not lie under the path, in their order.
RECURSIVE TabsNotUnder(_, _)
TabsNotUnder(ts, path) ==
    IF ts = <<>> THEN <<>>
    ELSE (IF IsSome(Head(ts).file_path)
             /\ Path_starts_with(Resolve(Unwrap(Head(ts).file_path)), Resolve(path))
          THEN <<>> ELSE <<Head(ts)>>) \o TabsNotUnder(Tail(ts), path)

\* C10: after a confirmed delete whose OS removal succeeded the path does not
\* exist, the tabs whose file lies under the path are removed and the other tabs
\* are kept in their order, the rebuilt listing does not hold the path,
\* path_to_delete is None and mode is FileTree.
C10_ConfirmedDelete ==
    [][\A k \in 1..Len(log') :
          (~panicked' /\ log'[k][1] = "remove" /\ log'[k][3]) =>
             /\ ~Fs_exists(fs', log'[k][2])
             /\ tabs' = TabsNotUnder(tabs, log'[k][2])
             /\ Last(log')[3] =>
                   \A i \in 1..Len(directory_view'.entries) :
                       directory_view'.entries[i] # log'[k][2]
             /\ path_to_delete' = None
             /\ mode' = "FileTree"]_vars

\* C11: when the OS call of a delete, a create or a rename fails, the status
\* message reports the error, mode becomes FileTree, and the tabs, active_tab_index,
\* active_pane, the directory snapshot, the find state and should_quit are as they
\* were.
C11_FailedMutationKeepsState ==
    [][\A k \in Mutations(log') :
          (~panicked' /\ ~log'[k][3]) =>
             /\ status_message' \in {<<"Error deleting", <<"io">>>>, <<"Error", <<"io">>>>}
             /\ mode' = "FileTree"
             /\ tabs' = tabs /\ active_tab_index' = active_tab_index
             /\ active_pane' = active_pane
             /\ directory_view' = directory_view
             /\ find_query' = find_query /\ find_matches' = find_matches
             /\ current_match_index' = current_match_index
             /\ find_navigation_active' = find_navigation_active
             /\ should_quit' = should_quit]_vars

\* With a tab open, the creation of b has failed.
C11_Witness ==
    /\ log = <<<<"create", Path_push(Cwd, <<"b">>), FALSE>>>>
    /\ tabs # <<>>
    /\ status_message = <<"Error", <<"io">>>>
    /\ mode = "FileTree"

\* C18: after a rename that succeeded, every tab whose file_path was the old path
\* has the new path, no tab was added or removed, active_tab_index and the
\* contents of every buffer are as they were, path_to_rename is None and mode is
\* FileTree.
C18_RenameRepointsTabs ==
    [][(/\ mode = "PromptRename" /\ IsSome(path_to_rename)
        /\ ~panicked'
        /\ log' # <<>> /\ log'[1][1] = "rename" /\ log'[1][3]) =>
           LET old_path == Unwrap(path_to_rename)
               new_path == Path_set_file_name(old_path, command_buffer)
           IN  /\ Len(tabs') = Len(tabs)
               /\ \A i \in 1..Len(tabs) :
                     tabs'[i] = IF tabs[i].file_path = Some(old_path)
                                THEN [tabs[i] EXCEPT !.file_path = Some(new_path)]
                                ELSE tabs[i]
               /\ active_tab_index' = active_tab_index
               /\ status_message' = <<"Renamed to", new_path>>
               /\ path_to_rename' = None
               /\ mode' = "FileTree"]_vars

\* The file /a, open in a tab, has been renamed to b: the tab has the path /b.
C18_Witness ==
    /\ log # <<>> /\ log[1] = <<"rename", AbsA, TRUE>>
    /\ status_message = <<"Renamed to", Path_push(Cwd, <<"b">>)>>
    /\ Len(tabs) = 1
    /\ tabs[1].file_path = Some(Path_push(Cwd, <<"b">>))
    /\ path_to_rename = None /\ mode = "FileTree"

\* C19: after a creation that succeeded, for PromptNewFile one new tab of the
\* created path is appended and is the active tab, and the pane and mode are
\* (Editor, Edit); for PromptNewDirectory the tabs and active_tab_index are as they
\* were and the pane and mode are (FileTree, FileTree).
C19_CreateOpensFile ==
    [][(/\ mode \in {"PromptNewFile", "PromptNewDirectory"}
        /\ ~panicked'
        /\ log' # <<>> /\ log'[1][1] = "create" /\ log'[1][3]) =>
           LET path == Path_push(directory_view.path, command_buffer)
           IN  IF mode = "PromptNewFile"
               THEN /\ Len(tabs') = Len(tabs) + 1
                    /\ Prefix(tabs', Len(tabs)) = tabs
                    /\ Last(tabs').file_path = Some(path)
                    /\ active_tab_index' = Len(tabs)
                    /\ active_pane' = "Editor" /\ mode' = "Edit"
               ELSE /\ tabs' = tabs
                    /\ active_tab_index' = active_tab_index
                    /\ active_pane' = "FileTree" /\ mode' = "FileTree"]_vars

\* With the tab of /a open, the file b has been created: its tab is the second
\* and the active one.
C19_Witness ==
    /\ status_message = <<"Created", Path_push(Cwd, <<"b">>)>>
    /\ Len(tabs) = 2 /\ active_tab_index = 1
    /\ tabs[1].file_path = Some(AbsA)
    /\ tabs[2].file_path = Some(Path_push(Cwd, <<"b">>))
    /\ active_pane = "Editor" /\ mode = "Edit"

\* The keys that cancel a delete, and the other keys ConfirmDelete does not read.
CancelKey ==
    \/ KeyEsc(VSession)
    \/ \E c \in {"n", "N"} : Running /\ Handle(KeyEvent("Char", c, "NONE"), VSession)

OtherKey ==
    \/ KeyEnter(VSession) \/ KeyTab(VSession) \/ KeyBackspace(VSession)
    \/ KeyLeft(VSession) \/ KeyRight(VSession) \/ KeyUp(VSession) \/ KeyDown(VSession)
    \/ Running /\ Handle(KeyEvent("Char", "z", "NONE"), VSession)

\* C20: n, N or Esc in ConfirmDelete sets mode to FileTree and path_to_delete to
\* None, removes nothing from the file system and leaves the tabs, active_tab_index
\* and the directory snapshot as they were; every other key but y and Y leaves the
\* mode ConfirmDelete and the pending path as it was.
C20_CancelDelete ==
    [][/\ (mode = "ConfirmDelete" /\ CancelKey) =>
             /\ mode' = "FileTree"
             /\ path_to_delete' = None
             /\ fs' = fs /\ log' = <<>>
             /\ tabs' = tabs /\ active_tab_index' = active_tab_index
             /\ directory_view' = directory_view
       /\ (mode = "ConfirmDelete" /\ OtherKey) =>
             /\ mode' = "ConfirmDelete"
             /\ path_to_delete' = path_to_delete]_vars

\* The delete of /a, which is open in a tab, has been cancelled.
C20_Witness ==
    /\ status_message = <<"Delete cancelled.", <<>>>>
    /\ mode = "FileTree" /\ path_to_delete = None
    /\ \E i \in 1..Len(tabs) : tabs[i].file_path = Some(AbsA)
    /\ Fs_exists(fs, AbsA)
    /\ directory_view.selected_index = 1

QuitCommands == {<<"x">>, <<"e", "x", "i", "t">>, <<"w", "x">>}

\* C24: should_quit becomes true only when x, exit or wx is entered in Command mode
\* or a save of PromptSaveAndQuit has succeeded, and no failing OS call ends the
\* program: it keeps running after every event.
C24_OnlyQuitStops ==
    [][/\ (should_quit' /\ ~should_quit) =>
             \/ /\ mode = "Command"
                /\ command_of(split_whitespace(command_buffer)) \in QuitCommands
             \/ mode = "PromptSaveAndQuit"
       /\ ~panicked']_vars

ModalModes == {"ConfirmDelete", "PromptNewFile", "PromptNewDirectory", "PromptRename"}

\* The outcomes of a dialog: y, Y, n, N and Esc for ConfirmDelete; Enter with a
\* name typed, and Esc, for the prompts.
DialogOutcome(V) ==
    \/ /\ mode = "ConfirmDelete"
       /\ \/ Running /\ \E c \in {"y", "Y", "n", "N"} : Handle(KeyEvent("Char", c, "NONE"), V)
          \/ KeyEsc(V)
    \/ /\ mode \in ModalModes \ {"ConfirmDelete"}
       /\ \/ command_buffer # <<>> /\ KeyEnter(V)
          \/ KeyEsc(V)

\* C25: while a dialog is open, an event that is none of its outcomes changes
\* neither the selected entry, nor the active tab, nor a document, and the dialog
\* stays open.
C25_DialogsAreModal ==
    [][(mode \in ModalModes /\ ~DialogOutcome(VSession)) =>
          /\ directory_view'.selected_index = directory_view.selected_index
          /\ active_tab_index' = active_tab_index
          /\ tabs' = tabs
          /\ mode' = mode]_vars

SelectionInRange ==
    directory_view.entries # <<>> =>
        directory_view.selected_index < Len(directory_view.entries)

\* The file tree has the keys, and Up or k (Down or j) is pressed.
MovesUp ==
    /\ active_pane = "FileTree" /\ mode = "FileTree"
    /\ KeyUp(VSession) \/ (Running /\ Handle(KeyEvent("Char", "k", "NONE"), VSession))
MovesDown ==
    /\ active_pane = "FileTree" /\ mode = "FileTree"
    /\ KeyDown(VSession) \/ (Running /\ Handle(KeyEvent("Char", "j", "NONE"), VSession))

\* The event has read a directory: a new snapshot has replaced the old one.
Rebuilt == \E k \in 1..Len(log') : log'[k][1] = "read_dir" /\ log'[k][3]

\* C26: while the listing is not empty, selected_index is below the number of its
\* entries; moving up or down changes selected_index by one, stopping at 0 and at
\* the last entry, and changes nothing in an empty listing; every new snapshot has
\* selected_index 0.
C26_SelectionInRange ==
    /\ SelectionInRange
    /\ [][/\ SelectionInRange'
          /\ MovesUp =>
                /\ directory_view'.selected_index =
                      IF directory_view.selected_index = 0 THEN 0
                      ELSE directory_view.selected_index - 1
                /\ directory_view'.entries = directory_view.entries
                /\ directory_view'.path = directory_view.path
          /\ MovesDown =>
                /\ directory_view'.selected_index =
                      IF directory_view.selected_index + 1 >= Len(directory_view.entries)
                      THEN directory_view.selected_index
                      ELSE directory_view.selected_index + 1
                /\ directory_view'.entries = directory_view.entries
                /\ directory_view'.path = directory_view.path
          /\ Rebuilt => directory_view'.selected_index = 0]_vars

\* The last of two entries is selected, and Down leaves it selected.
C26_Witness ==
    /\ active_pane = "FileTree" /\ mode = "FileTree"
    /\ Len(directory_view.entries) = 2 /\ directory_view.selected_index = 1
    /\ handle_event(World, KeyEvent("Down", "", "NONE"), {}, TermWidth, TermHeight)
          .directory_view.selected_index = 1
    /\ handle_event(World, KeyEvent("Up", "", "NONE"), {}, TermWidth, TermHeight)
          .directory_view.selected_index = 0

\* The step is the event `ev` handled while the OS calls of `io` fail.
HandleWith(ev, io, V) ==
    /\ Running
    /\ \E w \in {handle_event(World, ev, io, TermWidth, TermHeight)} :
          IF w.panicked
          THEN panicked' = TRUE /\ UNCHANGED appVars
          ELSE InBounds(w, V) /\ BecomesWorld(w)

\* Enter, Right or l on a selected directory, while the OS calls of `io` fail.
Descends(io) ==
    /\ active_pane = "FileTree" /\ mode = "FileTree" /\ command_buffer = <<>>
    /\ IsSome(SelectedEntry(World)) /\ Fs_is_dir(fs, Unwrap(SelectedEntry(World)))
    /\ \E ev \in {KeyEvent("Enter", "", "NONE"), KeyEvent("Right", "", "NONE"),
                  KeyEvent("Char", "l", "NONE")} : HandleWith(ev, io, VNav)

\* Left in a directory that has a parent, while the OS calls of `io` fail.
GoesUp(io) ==
    /\ active_pane = "FileTree" /\ mode = "FileTree"
    /\ IsSome(Path_parent(directory_view.path))
    /\ HandleWith(KeyEvent("Left", "", "NONE"), io, VNav)

\* C27: when the read_dir of the directory that is entered, or of the parent that
\* is gone up to, fails, the snapshot stays as it was (path, entries, selected_index
\* and scroll_offset) and a status message tells of the failure.
C27_FailedNavigationKeepsSnapshot ==
    [][(Descends({1}) \/ GoesUp({1})) =>
          /\ directory_view' = directory_view
          /\ status_message' # <<>>]_vars

FileTreeModes == {"FileTree", "ConfirmDelete", "PromptNewFile", "PromptNewDirectory",
                  "PromptRename"}
EditorModes == {"Command", "Edit", "Find", "PromptSave", "PromptSaveAndQuit"}

\* C32: in every reachable state the file tree has the keys exactly when mode is
\* FileTree or one of its dialogs, and the editor has them exactly when mode is
\* Command, Edit, Find or a save prompt.
C32_PaneMatchesMode ==
    /\ active_pane = "FileTree" <=> mode \in FileTreeModes
    /\ active_pane = "Editor" <=> mode \in EditorModes

\* A click in the editor pane has left the delete dialog: the editor has the keys
\* in mode Edit, and the path of the dialog is still pending.
C32_Witness ==
    /\ active_pane = "Editor" /\ mode = "Edit"
    /\ IsSome(path_to_delete)

\* C34: after every event that changes the mode, command_buffer is empty.
C34_ModeChangeClearsBuffer ==
    [][mode' # mode => command_buffer' = <<>>]_vars

\* The delete of the dialog is confirmed and the OS has removed the path.
DeleteSucceeds ==
    /\ mode = "ConfirmDelete" /\ IsSome(path_to_delete)
    /\ log' # <<>> /\ log'[1] = <<"remove", Unwrap(path_to_delete), TRUE>>

\* C35: after a confirmed delete that succeeded, a document that was the active one
\* and whose file is not under the deleted path is the active one still.
C35_DeleteKeepsActiveTab ==
    [][(/\ DeleteSucceeds
        /\ HasActivePage(World)
        /\ IsSome(ActivePage(World).file_path)
        /\ ~Path_starts_with(Resolve(Unwrap(ActivePage(World).file_path)),
                             Resolve(Unwrap(path_to_delete)))) =>
          /\ HasActivePage(World)'
          /\ ActivePage(World)' = ActivePage(World)]_vars

\* The session after one press of Esc.
PressEsc(w) == handle_event(w, KeyEvent("Esc", "", "NONE"), {}, TermWidth, TermHeight)

AtCommandLine(w) == w.active_pane = "Editor" /\ w.mode = "Command"

\* The tab list: the file and the lines of every tab, in the order of the tabs.
TabList(w) ==
    [k \in 1..Len(w.tabs) |-> <<w.tabs[k].file_path, Page_get_all_lines(w.tabs[k])>>]

\* C37: one press of Esc or two lead to the command line of the editor pane, and a
\* press of Esc makes no OS call, leaves the file system as it is and leaves the tab
\* list, the files and the lines of the tabs in their order, as it is.
C37_EscLeadsToCommandLine ==
    Running =>
        LET once == PressEsc(World)
            twice == PressEsc(once)
        IN  /\ ~once.panicked /\ ~twice.panicked
            /\ AtCommandLine(once) \/ AtCommandLine(twice)
            /\ once.log = <<>> /\ twice.log = <<>>
            /\ once.fs = fs /\ twice.fs = fs
            /\ TabList(once) = TabList(World) /\ TabList(twice) = TabList(World)

\* A dialog of the file tree with a tab open: the first Esc goes back to the file
\* tree, the second to the command line.
C37_Witness ==
    /\ mode \in {"ConfirmDelete", "PromptRename"} /\ tabs # <<>> /\ Running
    /\ PressEsc(World).mode = "FileTree" /\ PressEsc(World).active_pane = "FileTree"
    /\ AtCommandLine(PressEsc(PressEsc(World)))

\* Enter in PromptNewFile with the name of a file of the browsed directory, while no
\* OS call fails.
CreatesOverFile ==
    /\ mode = "PromptNewFile" /\ command_buffer # <<>>
    /\ Fs_is_file(fs, Path_push(directory_view.path, command_buffer))
    /\ HandleWith(KeyEvent("Enter", "", "NONE"), {}, VCreate)

\* C39: a new file with the name of a file that exists in the browsed directory is
\* written without a confirmation: the file is left empty, a tab of its path is
\* appended and made the active one, in mode Edit, and the tabs that were open,
\* those of the same path too, are as they were.
C39_CreateOverFileTruncates ==
    [][CreatesOverFile =>
          LET path == Path_push(directory_view.path, command_buffer)
          IN  /\ log'[1] = <<"create", path, TRUE>>
              /\ fs'[Resolve(path)] = FileNode(<<>>)
              /\ Len(tabs') = Len(tabs) + 1
              /\ Prefix(tabs', Len(tabs)) = tabs
              /\ Last(tabs').file_path = Some(path)
              /\ Page_get_all_lines(Last(tabs')) = <<<<>>>>
              /\ active_tab_index' = Len(tabs)
              /\ mode' = "Edit" /\ active_pane' = "Editor"]_vars

\* The file "a" holds "x" and is open in a tab; nf with the name "a" leaves the file
\* empty and two tabs of its path, the first with the line "x" still.
C39_Witness ==
    /\ Running /\ mode = "PromptNewFile" /\ command_buffer = <<"a">>
    /\ fs[AbsA] = FileNode(<<"x">>)
    /\ Len(tabs) = 1 /\ tabs[1].file_path = Some(AbsA)
    /\ Page_get_all_lines(tabs[1]) = <<<<"x">>>>
    /\ LET w == handle_event(World, KeyEvent("Enter", "", "NONE"), {}, TermWidth, TermHeight)
       IN  /\ w.fs[AbsA] = FileNode(<<>>)
           /\ Len(w.tabs) = 2 /\ w.tabs[1] = tabs[1]
           /\ w.tabs[2].file_path = Some(AbsA)

(***************************************************************************)
(* Claims about saving and the command line.                               *)
(***************************************************************************)
\* The file_path of every tab, in the order of the tabs.
FilePaths(ts) == [i \in 1..Len(ts) |-> ts[i].file_path]

\* C12: when Enter in PromptSave or PromptSaveAndQuit with a typed file name makes
\* a write that fails, the mode stays the same prompt, command_buffer keeps the
\* typed name, the status message is an error, and the file_path of the active
\* buffer and should_quit are as they were.
C12_FailedPromptSaveStays ==
    [][(/\ mode \in {"PromptSave", "PromptSaveAndQuit"}
        /\ ~panicked'
        /\ log' # <<>> /\ log'[1][1] = "write" /\ ~log'[1][3]) =>
           /\ mode' = mode
           /\ command_buffer' = command_buffer
           /\ status_message' = <<"Error", <<"io">>>>
           /\ FilePaths(tabs') = FilePaths(tabs)
           /\ should_quit' = should_quit]_vars

\* C13: while no tabs are open, the commands of the command line that act on the
\* active buffer (q, r, w and wq, with a path or without) and Enter in the save
\* prompt change neither the file system nor the tabs: no file is created or
\* written, and tabs stays empty.
C13_EmptyTabsNoOp ==
    [][(/\ tabs = <<>>
        /\ active_pane = "Editor"
        /\ mode \in {"Command", "PromptSave", "PromptSaveAndQuit"}
        /\ ~panicked') =>
           /\ fs' = fs
           /\ \A k \in 1..Len(log') : log'[k][1] # "write"
           /\ tabs' = <<>>]_vars

\* The tabs without their scroll offsets: the documents, cursors and paths.
NoScroll(ts) ==
    [i \in 1..Len(ts) |-> [ts[i] EXCEPT !.scroll_offset = 0,
                                        !.horizontal_scroll_offset = 0]]

\* The tabs without the i-th (counted from 0).
WithoutTab(ts, i) == Prefix(ts, i) \o Suffix(ts, i + 1)

\* Enter on a command line whose command is `word`.
EntersCommand(word) ==
    /\ mode = "Command" /\ active_pane = "Editor"
    /\ command_of(split_whitespace(command_buffer)) = word
    /\ KeyEnter(VSave)
    /\ ~panicked'

\* C14: wq closes the active tab only if the save succeeded.  If the write fails,
\* or no path is known and the mode becomes PromptSave, the tabs and
\* active_tab_index are as they were; if the write succeeds, the active tab and no
\* other is removed and the index is clamped.
C14_WqClosesOnlyIfSaved ==
    [][EntersCommand(<<"w", "q">>) =>
          IF log' # <<>> /\ log'[1][3]
          THEN /\ NoScroll(tabs') = NoScroll(IF tabs = <<>> THEN <<>>
                                             ELSE WithoutTab(tabs, active_tab_index))
               /\ active_tab_index' = IF tabs' = <<>> THEN 0
                                       ELSE Min(active_tab_index, Len(tabs') - 1)
          ELSE /\ NoScroll(tabs') = NoScroll(tabs)
               /\ active_tab_index' = active_tab_index
               /\ log' = <<>> => mode' = "PromptSave"]_vars

\* Of the tabs of a and of /a, wq has saved and closed the first, and the tab of
\* /a is left.
C14_Witness ==
    /\ log = <<<<"write", RelA, TRUE>>>>
    /\ status_message = <<"Saved to", RelA>>
    /\ Len(tabs) = 1 /\ tabs[1].file_path = Some(AbsA)
    /\ active_tab_index = 0

\* C15: w with no argument on an active buffer that has no file_path sets mode to
\* PromptSave with an empty command_buffer and writes nothing; no failure is
\* reported and the buffer is as it was.
C15_PathlessWritePrompts ==
    [][(/\ EntersCommand(<<"w">>)
        /\ arg_of(split_whitespace(command_buffer)) = None
        /\ HasActivePage(World)
        /\ active_file_path(World) = None) =>
           /\ mode' = "PromptSave"
           /\ command_buffer' = <<>>
           /\ log' = <<>> /\ fs' = fs
           /\ status_message' = <<>>
           /\ NoScroll(tabs') = NoScroll(tabs)
           /\ active_tab_index' = active_tab_index]_vars

\* The prompt has been opened for a buffer with no path that holds the text "x".
C15_Witness ==
    /\ mode = "PromptSave" /\ command_buffer = <<>>
    /\ HasActivePage(World)
    /\ active_file_path(World) = None
    /\ ActiveContent(World) = <<"x">>

\* C16: after `w <path>` in Command mode on an active buffer, when the write has
\* succeeded, the file at <path> holds get_all_lines() joined by "\n", the
\* file_path of the active buffer is <path>, the status message is "Saved to
\* <path>", the contents and the cursor of the buffer are as they were, and the
\* mode is still Command.
C16_WriteToPath ==
    [][\A arg \in VSave.names :
          (/\ EntersCommand(<<"w">>)
           /\ arg_of(split_whitespace(command_buffer)) = Some(arg)
           /\ HasActivePage(World)
           /\ log' # <<>> /\ log'[1][3]) =>
              /\ Fs_read_to_string(fs', <<arg>>, TRUE) = Some(ActiveContent(World))
              /\ active_tab_index' = active_tab_index
              /\ NoScroll(tabs') =
                    NoScroll([tabs EXCEPT ![active_tab_index + 1].file_path = Some(<<arg>>)])
              /\ status_message' = <<"Saved to", <<arg>>>>
              /\ mode' = "Command"]_vars

\* The buffer of a, holding "x", has been written to b: the file /b holds "x"
\* and the file /a is as it was.
C16_Witness ==
    /\ log = <<<<"write", <<<<"b">>>>, TRUE>>>>
    /\ status_message = <<"Saved to", <<<<"b">>>>>>
    /\ mode = "Command"
    /\ Len(tabs) = 1
    /\ active_file_path(World) = Some(<<<<"b">>>>)
    /\ ActiveContent(World) = <<"x">>
    /\ Fs_read_to_string(fs, <<<<"b">>>>, TRUE) = Some(<<"x">>)
    /\ Fs_read_to_string(fs, AbsA, TRUE) = Some(<<>>)

\* The indices of the tabs that have a file_path, in their order.
TabsWithPath(ts) ==
    SelectSeq([i \in 1..Len(ts) |-> i], LAMBDA i : IsSome(ts[i].file_path))

\* C17: wx writes every tab that has a file_path, in the order of the tabs, with
\* get_all_lines() joined by "\n"; it writes nothing for a tab with no path and
\* leaves the tabs as they were; should_quit is set whether a write failed or not,
\* and the failures are collected into the one status message.
C17_WriteAllThenQuit ==
    [][EntersCommand(<<"w", "x">>) =>
          LET written == TabsWithPath(tabs)
              path(k) == Unwrap(tabs[written[k]].file_path)
              content(k) == Join(Page_get_all_lines(tabs[written[k]]))
              last(k) == \A j \in (k + 1)..Len(written) :
                             log'[j][3] => Resolve(path(j)) # Resolve(path(k))
              done == {Resolve(path(k)) : k \in {j \in 1..Len(written) : log'[j][3]}}
          IN  /\ Len(log') = Len(written)
              /\ \A k \in 1..Len(written) :
                    /\ log'[k][1] = "write" /\ log'[k][2] = path(k)
                    /\ (log'[k][3] /\ last(k)) =>
                          Fs_read_to_string(fs', path(k), TRUE) = Some(content(k))
              /\ DOMAIN fs' = DOMAIN fs \cup done
              /\ \A q \in DOMAIN fs \ done : fs'[q] = fs[q]
              /\ NoScroll(tabs') = NoScroll(tabs)
              /\ active_tab_index' = active_tab_index
              /\ should_quit'
              /\ status_message' = IF \E k \in 1..Len(written) : ~log'[k][3]
                                    THEN <<"Errors saving files", failed_paths(log')>>
                                    ELSE <<"All files saved.", <<>>>>]_vars

\* Of the tabs of a and of /a, the write of the first has failed and the write of
\* the second has not; the program quits.
C17_Witness ==
    /\ should_quit
    /\ Len(tabs) = 2
    /\ log = <<<<"write", RelA, FALSE>>, <<"write", AbsA, TRUE>>>>
    /\ status_message = <<"Errors saving files", <<RelA>>>>
    /\ Fs_read_to_string(fs, AbsA, TRUE) = Some(Join(Page_get_all_lines(tabs[2])))

\* Enter with an empty command buffer, Right or l on a selected file of the tree.
OpensSelectedFile ==
    /\ active_pane = "FileTree" /\ mode = "FileTree"
    /\ IsSome(SelectedEntry(World)) /\ ~Fs_is_dir(fs, Unwrap(SelectedEntry(World)))
    /\ \/ command_buffer = <<>> /\ KeyEnter(VSession)
       \/ KeyRight(VSession)
       \/ Running /\ Handle(KeyEvent("Char", "l", "NONE"), VSession)

\* The indices, counted from 1, of the tabs of the file `path`.
TabsOf(path) == {i \in 1..Len(tabs) : tabs[i].file_path = Some(path)}

\* C28: opening from the tree a file that a tab holds already adds no tab and makes
\* the first tab of that path the active one; opening any other file appends one
\* tab, of that path, and makes it the active one.  The editor has the keys in
\* mode Edit afterwards.
C28_OpenReusesTab ==
    [][OpensSelectedFile =>
          LET path == Unwrap(SelectedEntry(World))
              open == TabsOf(path)
          IN  /\ active_pane' = "Editor" /\ mode' = "Edit"
              /\ IF open # {}
                 THEN /\ NoScroll(tabs') = NoScroll(tabs)
                      /\ active_tab_index' + 1 \in open
                      /\ \A i \in open : active_tab_index' + 1 <= i
                 ELSE /\ Len(tabs') = Len(tabs) + 1
                      /\ NoScroll(SubSeq(tabs', 1, Len(tabs))) = NoScroll(tabs)
                      /\ tabs'[Len(tabs')].file_path = Some(path)
                      /\ active_tab_index' = Len(tabs)]_vars

\* Two tabs are open and the second is active; the file of the first is selected
\* in the tree, and Enter makes the first tab active and opens none.
C28_Witness ==
    /\ active_pane = "FileTree" /\ mode = "FileTree" /\ command_buffer = <<>>
    /\ Len(tabs) = 2 /\ active_tab_index = 1
    /\ SelectedEntry(World) = tabs[1].file_path
    /\ LET opened == handle_event(World, KeyEvent("Enter", "", "NONE"), {}, TermWidth, TermHeight)
       IN  /\ Len(opened.tabs) = 2 /\ opened.active_tab_index = 0
           /\ opened.mode = "Edit"

\* What Esc and Tab in the file tree leave alone: the tabs, the snapshot, the
\* pending paths and the file system.
LeavesFileTreeOnly ==
    /\ NoScroll(tabs') = NoScroll(tabs)
    /\ active_tab_index' = active_tab_index
    /\ directory_view' = directory_view
    /\ path_to_delete' = path_to_delete /\ path_to_rename' = path_to_rename
    /\ fs' = fs
    /\ active_pane' = "Editor" /\ command_buffer' = <<>>

\* C29: in the file tree, Esc gives the keys to the editor in mode Command, and Tab
\* gives them to the editor in mode Edit while a tab is open and in mode Command
\* while none is; both empty the command buffer and change nothing in the tabs, the
\* snapshot and the pending paths.
C29_LeavingFileTree ==
    [][(active_pane = "FileTree" /\ mode = "FileTree") =>
          /\ KeyEsc(VSession) => (mode' = "Command" /\ LeavesFileTreeOnly)
          /\ KeyTab(VSession) =>
                /\ mode' = IF tabs # <<>> THEN "Edit" ELSE "Command"
                /\ LeavesFileTreeOnly]_vars

\* The file tree has the keys, a tab is open and d has been typed: Esc leads to
\* Command and Tab to Edit, and both empty the command buffer.
C29_Witness ==
    /\ active_pane = "FileTree" /\ mode = "FileTree"
    /\ tabs # <<>> /\ command_buffer = <<"d">>
    /\ LET escaped == handle_event(World, KeyEvent("Esc", "", "NONE"), {}, TermWidth, TermHeight)
           tabbed == handle_event(World, KeyEvent("Tab", "", "NONE"), {}, TermWidth, TermHeight)
       IN  /\ escaped.mode = "Command" /\ escaped.command_buffer = <<>>
           /\ tabbed.mode = "Edit" /\ tabbed.command_buffer = <<>>
           /\ escaped.active_pane = "Editor" /\ tabbed.active_pane = "Editor"

\* C38: the mode is never PromptSaveAndQuit: the commands w, write and wq save with
\* quit_after_app = false, and a save with no path known prompts in PromptSave.
C38_NeverPromptSaveAndQuit == mode # "PromptSaveAndQuit"

\* wq on a document with no path: Enter opens the prompt, in mode PromptSave.
C38_Witness ==
    /\ Running /\ mode = "Command" /\ command_buffer = <<"w", "q">>
    /\ HasActivePage(World) /\ ~IsSome(ActivePage(World).file_path)
    /\ handle_event(World, KeyEvent("Enter", "", "NONE"), {}, TermWidth, TermHeight).mode
           = "PromptSave"

(***************************************************************************)
(* Claims about the search and the mouse.                                  *)
(***************************************************************************)
\* The cursor of the active document: its row and its column, counted in characters.
Cursor ==
    <<Page_cursor_row(ActivePage(World)), Zipper_cursor_position(ActivePage(World).current)>>

\* The columns, counted in characters from 0, at which `query` occurs in `line`,
\* from the left.
RECURSIVE OccurrencesFrom(_, _, _)
OccurrencesFrom(line, query, i) ==
    IF i + Len(query) > Len(line) THEN <<>>
    ELSE (IF SubSeq(line, i + 1, i + Len(query)) = query THEN <<i>> ELSE <<>>)
         \o OccurrencesFrom(line, query, i + 1)

\* The <<row, column>> of every occurrence of `query` in `lines`, row by row.
RECURSIVE OccurrencesInLines(_, _, _)
OccurrencesInLines(lines, query, row) ==
    IF row >= Len(lines) THEN <<>>
    ELSE LET cols == OccurrencesFrom(lines[row + 1], query, 0)
         IN  [k \in 1..Len(cols) |-> <<row, cols[k]>>]
             \o OccurrencesInLines(lines, query, row + 1)

\* A character is typed into the query while the matches are not being visited.
TypesIntoQuery ==
    /\ mode = "Find" /\ ~find_navigation_active /\ HasActivePage(World)
    /\ KeyChar(VFind)

\* C21: after a character is typed into the query, find_matches lists, row by row
\* and from the left, the <<row, column>> of every place where the query occurs in a
\* line of the active document; if there is one, current_match_index is 0 and the
\* cursor is on the first of them.
C21_MatchesAreTheOccurrences ==
    [][TypesIntoQuery =>
          /\ find_matches' =
                OccurrencesInLines(Page_get_all_lines(ActivePage(World)), find_query', 0)
          /\ find_matches' # <<>> =>
                /\ current_match_index' = 0
                /\ Cursor' = find_matches'[1]]_vars

\* The matches are being visited, and there is one at least.
Visiting == mode = "Find" /\ find_navigation_active /\ find_matches # <<>>

PressesN == Running /\ Handle(KeyEvent("Char", "n", "NONE"), VFind)

\* The session after n has been pressed `times` times.
RECURSIVE AfterN(_, _)
AfterN(w, times) ==
    IF times = 0 THEN w
    ELSE AfterN(handle_event(w, KeyEvent("Char", "n", "NONE"), {}, TermWidth, TermHeight),
                times - 1)

TypesA == Running /\ Handle(KeyEvent("Char", "a", "NONE"), VFind)

\* The matches of the query in the active document, as update_search_matches
\* leaves them.
Recomputed(query) ==
    IF query = <<>> THEN <<>>
    ELSE matches_in_lines(Page_get_all_lines(ActivePage(World)), query, 0)

TextStartColumn == file_tree_width(TermWidth) + 1 + line_gutter_width(ActivePage(World))

\* A click on the text of the active document, at the <<column, row>> `at`.
ClicksText(at) ==
    /\ HasActivePage(World)
    /\ at[2] > 0 /\ at[1] >= TextStartColumn
    /\ Running /\ Handle(MouseEvent("Down", at[1], at[2]), VClick)

\* C23: a click on the text of the active document puts the cursor on the row
\* (click row - 1 + scroll_offset) and on the column (click column - first column of
\* the text + horizontal_scroll_offset), each clamped to the document, and leaves
\* the lines as they are.
C23_ClickMovesCursor ==
    [][\A at \in VClick.clicks :
          ClicksText(at) =>
             LET page == ActivePage(World)
                 lines == Page_get_all_lines(page)
                 row == Min(at[2] - 1 + page.scroll_offset, Len(lines) - 1)
                 col == Min(at[1] - TextStartColumn + page.horizontal_scroll_offset,
                            Len(lines[row + 1]))
             IN  /\ Cursor' = <<row, col>>
                 /\ Page_get_all_lines(ActivePage(World))' = lines]_vars

\* `query` occurs in line `row` of `lines` from the column `col` on.
OccursAt(lines, query, row, col) ==
    /\ row < Len(lines)
    /\ col + Len(query) <= Len(lines[row + 1])
    /\ SubSeq(lines[row + 1], col + 1, col + Len(query)) = query

\* C33: while mode is Find, every <<row, column>> of find_matches is a place where
\* the query occurs in that line of the active document.
C33_MatchesAreCurrent ==
    (mode = "Find" /\ find_matches # <<>>) =>
        /\ HasActivePage(World)
        /\ \A k \in 1..Len(find_matches) :
              OccursAt(Page_get_all_lines(ActivePage(World)), find_query,
                       find_matches[k][1], find_matches[k][2])

\* The documents of the tabs, in the order of the tabs.
Documents(ts) == [k \in 1..Len(ts) |-> Page_get_all_lines(ts[k])]

\* An editing key of the Edit mode: a character, Backspace or Enter.
EditKey(V) == mode = "Edit" /\ (KeyChar(V) \/ KeyBackspace(V) \/ KeyEnter(V))

\* The command r or revert, whose read of the active document's file succeeds.
RevertSucceeds(V) ==
    /\ mode = "Command" /\ command_buffer \in {<<"r">>, <<"r", "e", "v", "e", "r", "t">>}
    /\ KeyEnter(V)
    /\ log' # <<>> /\ log'[1][1] = "read" /\ log'[1][3]

\* A step changes the lines of the active document alone, and those by an editing
\* key or a revert alone; the documents that stay when a tab is closed are as they were.
LinesChangeOnlyByEditing(V) ==
    /\ Len(tabs') >= Len(tabs) =>
          \A k \in 1..Len(tabs) :
              Documents(tabs')[k] # Documents(tabs)[k] =>
                  /\ k = active_tab_index + 1
                  /\ EditKey(V) \/ RevertSucceeds(V)
    /\ Len(tabs') < Len(tabs) =>
          \E gone \in 1..Len(tabs) :
              Documents(tabs') = Documents(Prefix(tabs, gone - 1) \o Suffix(tabs, gone))

\* C36: the lines of a document change only by an editing key of the Edit mode or by
\* a revert that succeeds, and only those of the active document: no other key, no
\* mouse event and no other mode changes the lines of a document.
C36_LinesChangeOnlyByEditing == [][LinesChangeOnlyByEditing(VEdit)]_vars

\* An edited document beside a second one: the next "x" changes the lines of the
\* active document and of no other.
C36_Witness ==
    /\ mode = "Edit" /\ Len(tabs) = 2 /\ active_tab_index = 1
    /\ Documents(tabs)[1] = <<<<"x">>, <<>>>>
    /\ LET w == handle_event(World, KeyEvent("Char", "x", "NONE"), {}, TermWidth, TermHeight)
       IN  /\ Documents(w.tabs)[2] = <<<<"x">>>> /\ Documents(tabs)[2] = <<<<>>>>
           /\ Documents(w.tabs)[1] = Documents(tabs)[1]

\* C40: while there are matches, current_match_index is the index of one of them.
C40_MatchIndexInRange ==
    find_matches # <<>> => current_match_index < Len(find_matches)

\* The last of several matches is being visited: the next n wraps to the first.
C40_Witness ==
    /\ mode = "Find" /\ find_navigation_active
    /\ Len(find_matches) >= 2 /\ current_match_index = Len(find_matches) - 1
    /\ AfterN(World, 1).current_match_index = 0

(***************************************************************************)
(* Claims about the Page and the Zipper.                                   *)
(***************************************************************************)
Page_cursor_col(p) == Zipper_cursor_position(p.current)

\* C5: saving get_all_lines() joined by "\n" and loading the file again yields a
\* Page whose get_all_lines() is the original sequence of lines, a document
\* whose last line is empty included.
C5_SaveLoadRoundTrip ==
    pg_op[1] = "save_load" => Page_get_all_lines(pg) = Page_get_all_lines(pg_pre)

\* C6: move_cursor_to(row, col) leaves get_all_lines() as it was; afterwards
\* cursor_row() is row, clamped to the last line, and the cursor column is col,
\* clamped to the length of that line.
C6_MoveCursorTo ==
    pg_op[1] = "move_cursor_to" =>
        LET D == Page_get_all_lines(pg_pre)
            row == Min(pg_op[2], Len(D) - 1)
        IN  /\ Page_get_all_lines(pg) = D
            /\ Page_cursor_row(pg) = row
            /\ Page_cursor_col(pg) = Min(pg_op[3], Len(D[row + 1]))

C6_Witness ==
    /\ pg_op[1] = "move_cursor_to"
    /\ pg_op[2] = 1 /\ pg_op[3] = 1
    /\ Page_cursor_row(pg_pre) = 0 /\ Page_cursor_col(pg_pre) = 0
    /\ Page_cursor_row(pg) = 1 /\ Page_cursor_col(pg) = 1
    /\ Len(Page_get_all_lines(pg)) = MaxLines

\* C7: after insert_newline at column c of the current line, an immediate delete
\* (backspace) restores get_all_lines(), with cursor_row() unchanged and the
\* cursor at column c.
C7_SplitMergeInverse ==
    pg_op[1] = "insert_newline" =>
        /\ ~panicked
        /\ LET back == Page_delete(pg)
           IN  /\ Page_get_all_lines(back) = Page_get_all_lines(pg_pre)
               /\ Page_cursor_row(back) = Page_cursor_row(pg_pre)
               /\ Page_cursor_col(back) = Page_cursor_col(pg_pre)

\* C8: whenever as many deletes have removed a character as there were inserts,
\* the Zipper is empty again (to_string() = "" and cursor_position() = 0);
\* move_left and move_right never change to_string(), and delete at column 0
\* changes nothing.
C8_ZipperTypeThenErase ==
    /\ n_ins = n_del => (Zipper_to_string(z) = <<>> /\ Zipper_cursor_position(z) = 0)
    /\ n_ins = n_del => z = Zipper_new
    /\ z_op \in {"move_left", "move_right"} => Zipper_to_string(z) = Zipper_to_string(z_pre)
    /\ (z_op = "delete" /\ Zipper_cursor_position(z_pre) = 0) => z = z_pre
    /\ Zipper_cursor_position(z) + Len(z.after) = n_ins - n_del

C8_Witness ==
    /\ n_ins = MaxInserts /\ n_del = n_ins
    /\ z_op = "delete" /\ z_pre.after = <<>> /\ z = Zipper_new

\* C31: move_up and move_down leave get_all_lines() as it was; move_up on the first
\* line and move_down on the last change nothing; otherwise cursor_row() changes by
\* one and the cursor column is the column before, clamped to the length of the new
\* current line.
C31_MoveUpDown ==
    LET D == Page_get_all_lines(pg_pre)
        row == Page_cursor_row(pg_pre)
        col == Page_cursor_col(pg_pre)
    IN  /\ pg_op[1] = "move_up" =>
              /\ Page_get_all_lines(pg) = D
              /\ IF row = 0 THEN pg = pg_pre
                 ELSE /\ Page_cursor_row(pg) = row - 1
                      /\ Page_cursor_col(pg) = Min(col, Len(D[row]))
        /\ pg_op[1] = "move_down" =>
              /\ Page_get_all_lines(pg) = D
              /\ IF row = Len(D) - 1 THEN pg = pg_pre
                 ELSE /\ Page_cursor_row(pg) = row + 1
                      /\ Page_cursor_col(pg) = Min(col, Len(D[row + 2]))

\* move_up from column 2 of the second line to a first line of one character: the
\* cursor is at column 1.
C31_Witness ==
    /\ pg_op[1] = "move_up"
    /\ Page_cursor_row(pg_pre) = 1 /\ Page_cursor_col(pg_pre) = 2
    /\ Page_cursor_row(pg) = 0 /\ Page_cursor_col(pg) = 1
    /\ Len(Page_get_all_lines(pg)[1]) = 1

====
